---- MODULE Spec2Model ----
(***************************************************************************)
(* A model of docparser's extraction engine (internal/extract/extract.go): *)
(* the format dispatcher ExtractText and the four extractors extractPDF,   *)
(* extractDOCX, extractRTF and extractTXT.                                 *)
(*                                                                         *)
(* A Go string is modelled as the sequence of its bytes (0..255), a rune   *)
(* as its code point, a Go error as a record (Nil for the nil error).      *)
(* Each extractor has a specification of its own; Spec is the dispatcher.  *)
(***************************************************************************)
EXTENDS Integers, Sequences, FiniteSets, TLC

VARIABLES
    pc,             \* position of the call
    filename,       \* ExtractText's filename, a sequence of characters
    data,           \* the input bytes
    ret,            \* the (string, error) pair the call returned
    ran,            \* the extractors ExtractText has called, in order
    \* extractPDF and the pdftotext subprocess
    written,        \* bytes of data that stdin.Write has put into the pipe
    stdinPipe,      \* bytes in the subprocess's stdin pipe
    stdinClosed,    \* stdin.Close() was called
    stdoutPipe,     \* bytes in the subprocess's stdout pipe
    out,            \* the bytes io.ReadAll has collected
    toolPc,         \* the subprocess: none, run, rd, wr, exited, killed
    toolPending,    \* the byte the subprocess is about to write
    toolEmitted,    \* every byte the subprocess wrote to its stdout
    exitStatus,     \* the subprocess's exit status, -1 while it has none
    waited,         \* cmd.Wait() has returned
    osErr,          \* the error the operating system reported, Nil if none
    \* extractTXT
    path,           \* the return statement extractTXT left by
    \* extractRTF
    i,              \* the tokenizer's cursor (0-based, as in the code)
    depth,          \* the group depth
    skipUntilDepth, \* the skip marker, -1 when not skipping
    b,              \* the output builder (extractRTF and extractDOCX)
    \* extractDOCX
    doc,            \* the XML tokens of word/document.xml, and how the stream ends
    decPos,         \* tokens the decoder has delivered
    decStk,         \* the decoder's own stack of open elements
    stack,          \* extractDOCX's element stack
    txt,            \* the text builder of the 't' run being read
    \* handleExtractBatch
    req,            \* the HTTP request: method, body, the files of the body
    results,        \* the response items built so far
    calls,          \* the calls of ExtractText made so far, with what they returned
    resp            \* the HTTP response, status 0 while there is none

pdfVars == <<written, stdinPipe, stdinClosed, stdoutPipe, out, toolPc,
             toolPending, toolEmitted, exitStatus, waited, osErr>>
callVars == <<filename, data, ret, ran>>
rtfVars == <<i, depth, skipUntilDepth>>
docxVars == <<doc, decPos, decStk, stack, txt>>
nonPdfVars == <<path, rtfVars, b, docxVars>>
batchVars == <<req, results, calls, resp>>
vars == <<pc, callVars, pdfVars, path, rtfVars, b, docxVars, batchVars>>

(***************************************************************************)
(* Bounds of the model.                                                    *)
(***************************************************************************)
MaxIn == 3        \* longest PDF input, in bytes
MaxOut == 3       \* most bytes the subprocess writes to its stdout
PipeCap == 2      \* capacity of an operating-system pipe, in bytes

(***************************************************************************)
(* Go values.                                                              *)
(***************************************************************************)
Nil == [kind |-> "nil", msg |-> "", code |-> 0, ext |-> <<>>]
OsError(m) == [kind |-> "os", msg |-> m, code |-> 0, ext |-> <<>>]
ExitError(s) == [kind |-> "exec.ExitError", msg |-> "exit status", code |-> s, ext |-> <<>>]
NoRet == [text |-> <<>>, err |-> Nil]

PdfMagic == <<37, 80, 68, 70>>                    \* "%PDF"

(***************************************************************************)
(* The state of each extractor before it is called.                        *)
(***************************************************************************)
PdfIdle ==
    /\ written = 0
    /\ stdinPipe = <<>>
    /\ stdinClosed = FALSE
    /\ stdoutPipe = <<>>
    /\ out = <<>>
    /\ toolPc = "none"
    /\ toolPending = 0
    /\ toolEmitted = <<>>
    /\ exitStatus = -1
    /\ waited = FALSE
    /\ osErr = Nil

TxtIdle == path = ""

RtfIdle ==
    /\ i = 0
    /\ depth = 0
    /\ skipUntilDepth = -1
    /\ b = <<>>

DocxIdle ==
    /\ doc = [archive |-> "none", toks |-> <<>>, tail |-> "eof"]
    /\ decPos = 0
    /\ decStk = <<>>
    /\ stack = <<>>
    /\ txt = <<>>

BatchIdle ==
    /\ req = [method |-> "", body |-> "", files |-> <<>>]
    /\ results = <<>>
    /\ calls = <<>>
    /\ resp = [code |-> 0, results |-> <<>>]

(***************************************************************************)
(* Bytes, runes and strings.                                               *)
(***************************************************************************)
CR == <<13>>
LF == <<10>>
CRLF == <<13, 10>>
ReplacementChar == 65533                          \* utf8.RuneError, U+FFFD

\* strings.HasPrefix / bytes.HasPrefix
HasPrefix(s, prefix) ==
    /\ Len(s) >= Len(prefix)
    /\ SubSeq(s, 1, Len(prefix)) = prefix

\* strings.ReplaceAll(s, old, new), old not empty: the non-overlapping
\* occurrences of old, left to right.
RECURSIVE ReplaceAll(_, _, _)
ReplaceAll(s, old, new) ==
    IF Len(s) < Len(old) THEN s
    ELSE IF SubSeq(s, 1, Len(old)) = old
         THEN new \o ReplaceAll(SubSeq(s, Len(old) + 1, Len(s)), old, new)
         ELSE <<s[1]>> \o ReplaceAll(Tail(s), old, new)

\* A variant that rewrites bare carriage returns first.
NormalizeNewlines_CrFirst(s) == ReplaceAll(ReplaceAll(s, CR, LF), CRLF, LF)

\* A variant that rewrites only the two-byte line ending.
NormalizeNewlines_CrLfOnly(s) == ReplaceAll(s, CRLF, LF)

\* s = strings.ReplaceAll(s, "\r\n", "\n"); s = strings.ReplaceAll(s, "\r", "\n")
NormalizeNewlines(s) == ReplaceAll(ReplaceAll(s, CRLF, LF), CR, LF)

IsCont(c) == c >= 128 /\ c <= 191

\* The width of the well-formed UTF-8 encoding that starts at s[k], 0 if
\* there is none (unicode/utf8's accept ranges).
Utf8Width(s, k) ==
    LET c == s[k]
        n == Len(s)
        second(lo, hi) == k + 1 <= n /\ s[k + 1] >= lo /\ s[k + 1] <= hi
        third == k + 2 <= n /\ IsCont(s[k + 2])
        fourth == k + 3 <= n /\ IsCont(s[k + 3])
    IN  IF c < 128 THEN 1
        ELSE IF c >= 194 /\ c <= 223 THEN (IF second(128, 191) THEN 2 ELSE 0)
        ELSE IF c = 224 THEN (IF second(160, 191) /\ third THEN 3 ELSE 0)
        ELSE IF c = 237 THEN (IF second(128, 159) /\ third THEN 3 ELSE 0)
        ELSE IF c >= 225 /\ c <= 239 THEN (IF second(128, 191) /\ third THEN 3 ELSE 0)
        ELSE IF c = 240 THEN (IF second(144, 191) /\ third /\ fourth THEN 4 ELSE 0)
        ELSE IF c >= 241 /\ c <= 243 THEN (IF second(128, 191) /\ third /\ fourth THEN 4 ELSE 0)
        ELSE IF c = 244 THEN (IF second(128, 143) /\ third /\ fourth THEN 4 ELSE 0)
        ELSE 0

RECURSIVE Utf8ValidFrom(_, _)
Utf8ValidFrom(s, k) ==
    IF k > Len(s) THEN TRUE
    ELSE IF Utf8Width(s, k) = 0 THEN FALSE
    ELSE Utf8ValidFrom(s, k + Utf8Width(s, k))

\* utf8.Valid / utf8.ValidString
Utf8Valid(s) == Utf8ValidFrom(s, 1)

\* The rune encoded at s[k] with width w >= 1.
RuneAt(s, k, w) ==
    IF w = 1 THEN s[k]
    ELSE IF w = 2 THEN (s[k] % 32) * 64 + (s[k + 1] % 64)
    ELSE IF w = 3 THEN (s[k] % 16) * 4096 + (s[k + 1] % 64) * 64 + (s[k + 2] % 64)
    ELSE (s[k] % 8) * 262144 + (s[k + 1] % 64) * 4096 + (s[k + 2] % 64) * 64 + (s[k + 3] % 64)

\* for _, r := range s: the runes of a string; a byte that starts no
\* well-formed encoding yields U+FFFD and is one byte wide.
RECURSIVE RunesFrom(_, _)
RunesFrom(s, k) ==
    IF k > Len(s) THEN <<>>
    ELSE LET w == Utf8Width(s, k)
         IN  IF w = 0 THEN <<ReplacementChar>> \o RunesFrom(s, k + 1)
             ELSE <<RuneAt(s, k, w)>> \o RunesFrom(s, k + w)

Runes(s) == RunesFrom(s, 1)

\* string(rune): the UTF-8 encoding; surrogates and values out of range are
\* encoded as U+FFFD.
EncodeRune(r) ==
    IF r < 0 \/ r > 1114111 \/ (r >= 55296 /\ r <= 57343) THEN <<239, 191, 189>>
    ELSE IF r < 128 THEN <<r>>
    ELSE IF r < 2048 THEN <<192 + (r \div 64), 128 + (r % 64)>>
    ELSE IF r < 65536 THEN <<224 + (r \div 4096), 128 + ((r \div 64) % 64), 128 + (r % 64)>>
    ELSE <<240 + (r \div 262144), 128 + ((r \div 4096) % 64),
           128 + ((r \div 64) % 64), 128 + (r % 64)>>

\* string([]rune)
RECURSIVE EncodeRunes(_)
EncodeRunes(rs) ==
    IF rs = <<>> THEN <<>> ELSE EncodeRune(rs[1]) \o EncodeRunes(Tail(rs))

\* utf16.Decode
RECURSIVE Utf16Decode(_)
Utf16Decode(u) ==
    IF u = <<>> THEN <<>>
    ELSE LET r == u[1]
         IN  IF r < 55296 \/ r >= 57344 THEN <<r>> \o Utf16Decode(Tail(u))
             ELSE IF r < 56320 /\ Len(u) >= 2 /\ u[2] >= 56320 /\ u[2] < 57344
                  THEN <<(r - 55296) * 1024 + (u[2] - 56320) + 65536>>
                       \o Utf16Decode(Tail(Tail(u)))
                  ELSE <<ReplacementChar>> \o Utf16Decode(Tail(u))

\* A variant that takes the BOM for the first unit.
Utf16Units_WithBom(bs, littleEndian) ==
    [k \in 1..(Len(bs) \div 2) |->
        IF littleEndian THEN bs[2 * k - 1] + 256 * bs[2 * k]
        ELSE bs[2 * k] + 256 * bs[2 * k - 1]]

\* The 16-bit units that follow a two-byte BOM; a trailing odd byte is left out.
Utf16Units(bs, littleEndian) ==
    [k \in 1..((Len(bs) - 2) \div 2) |->
        IF littleEndian THEN bs[2 * k + 1] + 256 * bs[2 * k + 2]
        ELSE bs[2 * k + 2] + 256 * bs[2 * k + 1]]

IsBomLE(bs) == Len(bs) >= 2 /\ bs[1] = 255 /\ bs[2] = 254
IsBomBE(bs) == Len(bs) >= 2 /\ bs[1] = 254 /\ bs[2] = 255

(***************************************************************************)
(* extractTXT: the charset resolver.                                       *)
(***************************************************************************)
\* charmap.Windows1251, bytes 0x80..0xFF
Windows1251 ==
    <<
       1026, 1027, 8218, 1107, 8222, 8230, 8224, 8225,
       8364, 8240, 1033, 8249, 1034, 1036, 1035, 1039,
       1106, 8216, 8217, 8220, 8221, 8226, 8211, 8212,
       152, 8482, 1113, 8250, 1114, 1116, 1115, 1119,
       160, 1038, 1118, 1032, 164, 1168, 166, 167,
       1025, 169, 1028, 171, 172, 173, 174, 1031,
       176, 177, 1030, 1110, 1169, 181, 182, 183,
       1105, 8470, 1108, 187, 1112, 1029, 1109, 1111,
       1040, 1041, 1042, 1043, 1044, 1045, 1046, 1047,
       1048, 1049, 1050, 1051, 1052, 1053, 1054, 1055,
       1056, 1057, 1058, 1059, 1060, 1061, 1062, 1063,
       1064, 1065, 1066, 1067, 1068, 1069, 1070, 1071,
       1072, 1073, 1074, 1075, 1076, 1077, 1078, 1079,
       1080, 1081, 1082, 1083, 1084, 1085, 1086, 1087,
       1088, 1089, 1090, 1091, 1092, 1093, 1094, 1095,
       1096, 1097, 1098, 1099, 1100, 1101, 1102, 1103
    >>

\* charmap.KOI8R, bytes 0x80..0xFF
KOI8R ==
    <<
       9472, 9474, 9484, 9488, 9492, 9496, 9500, 9508,
       9516, 9524, 9532, 9600, 9604, 9608, 9612, 9616,
       9617, 9618, 9619, 8992, 9632, 8729, 8730, 8776,
       8804, 8805, 160, 8993, 176, 178, 183, 247,
       9552, 9553, 9554, 1105, 9555, 9556, 9557, 9558,
       9559, 9560, 9561, 9562, 9563, 9564, 9565, 9566,
       9567, 9568, 9569, 1025, 9570, 9571, 9572, 9573,
       9574, 9575, 9576, 9577, 9578, 9579, 9580, 169,
       1102, 1072, 1073, 1094, 1076, 1077, 1092, 1075,
       1093, 1080, 1081, 1082, 1083, 1084, 1085, 1086,
       1087, 1103, 1088, 1089, 1090, 1091, 1078, 1074,
       1100, 1099, 1079, 1096, 1101, 1097, 1095, 1098,
       1070, 1040, 1041, 1062, 1044, 1045, 1060, 1043,
       1061, 1048, 1049, 1050, 1051, 1052, 1053, 1054,
       1055, 1071, 1056, 1057, 1058, 1059, 1046, 1042,
       1068, 1067, 1047, 1064, 1069, 1065, 1063, 1066
    >>

\* charmap.ISO8859_5, bytes 0x80..0xFF
ISO8859_5 ==
    <<
       128, 129, 130, 131, 132, 133, 134, 135,
       136, 137, 138, 139, 140, 141, 142, 143,
       144, 145, 146, 147, 148, 149, 150, 151,
       152, 153, 154, 155, 156, 157, 158, 159,
       160, 1025, 1026, 1027, 1028, 1029, 1030, 1031,
       1032, 1033, 1034, 1035, 1036, 173, 1038, 1039,
       1040, 1041, 1042, 1043, 1044, 1045, 1046, 1047,
       1048, 1049, 1050, 1051, 1052, 1053, 1054, 1055,
       1056, 1057, 1058, 1059, 1060, 1061, 1062, 1063,
       1064, 1065, 1066, 1067, 1068, 1069, 1070, 1071,
       1072, 1073, 1074, 1075, 1076, 1077, 1078, 1079,
       1080, 1081, 1082, 1083, 1084, 1085, 1086, 1087,
       1088, 1089, 1090, 1091, 1092, 1093, 1094, 1095,
       1096, 1097, 1098, 1099, 1100, 1101, 1102, 1103,
       8470, 1105, 1106, 1107, 1108, 1109, 1110, 1111,
       1112, 1113, 1114, 1115, 1116, 167, 1118, 1119
    >>

\* charmap.MacintoshCyrillic, bytes 0x80..0xFF
MacintoshCyrillic ==
    <<
       1040, 1041, 1042, 1043, 1044, 1045, 1046, 1047,
       1048, 1049, 1050, 1051, 1052, 1053, 1054, 1055,
       1056, 1057, 1058, 1059, 1060, 1061, 1062, 1063,
       1064, 1065, 1066, 1067, 1068, 1069, 1070, 1071,
       8224, 176, 1168, 163, 167, 8226, 182, 1030,
       174, 169, 8482, 1026, 1106, 8800, 1027, 1107,
       8734, 177, 8804, 8805, 1110, 181, 1169, 1032,
       1028, 1108, 1031, 1111, 1033, 1113, 1034, 1114,
       1112, 1029, 172, 8730, 402, 8776, 8710, 171,
       187, 8230, 160, 1035, 1115, 1036, 1116, 1109,
       8211, 8212, 8220, 8221, 8216, 8217, 247, 8222,
       1038, 1118, 1039, 1119, 8470, 1025, 1105, 1103,
       1072, 1073, 1074, 1075, 1076, 1077, 1078, 1079,
       1080, 1081, 1082, 1083, 1084, 1085, 1086, 1087,
       1088, 1089, 1090, 1091, 1092, 1093, 1094, 1095,
       1096, 1097, 1098, 1099, 1100, 1101, 1102, 8364
    >>

\* charmap.CodePage866, bytes 0x80..0xFF
CodePage866 ==
    <<
       1040, 1041, 1042, 1043, 1044, 1045, 1046, 1047,
       1048, 1049, 1050, 1051, 1052, 1053, 1054, 1055,
       1056, 1057, 1058, 1059, 1060, 1061, 1062, 1063,
       1064, 1065, 1066, 1067, 1068, 1069, 1070, 1071,
       1072, 1073, 1074, 1075, 1076, 1077, 1078, 1079,
       1080, 1081, 1082, 1083, 1084, 1085, 1086, 1087,
       9617, 9618, 9619, 9474, 9508, 9569, 9570, 9558,
       9557, 9571, 9553, 9559, 9565, 9564, 9563, 9488,
       9492, 9524, 9516, 9500, 9472, 9532, 9566, 9567,
       9562, 9556, 9577, 9574, 9568, 9552, 9580, 9575,
       9576, 9572, 9573, 9561, 9560, 9554, 9555, 9579,
       9578, 9496, 9484, 9608, 9604, 9612, 9616, 9600,
       1088, 1089, 1090, 1091, 1092, 1093, 1094, 1095,
       1096, 1097, 1098, 1099, 1100, 1101, 1102, 1103,
       1025, 1105, 1028, 1108, 1031, 1111, 1038, 1118,
       176, 8729, 183, 8730, 8470, 164, 9632, 160
    >>

Candidates == <<Windows1251, KOI8R, ISO8859_5, MacintoshCyrillic, CodePage866>>

\* io.ReadAll(transform.NewReader(data, enc.NewDecoder())): a charmap
\* decoder maps every byte to one rune and never fails.
CharmapDecode(enc, bs) ==
    EncodeRunes([k \in 1..Len(bs) |-> IF bs[k] < 128 THEN bs[k] ELSE enc[bs[k] - 127]])

IsRepl(r) == r = ReplacementChar
IsCyr(r) == ~IsRepl(r) /\ r >= 1024 /\ r <= 1327
IsAsciiPrint(r) == ~IsRepl(r) /\ ~IsCyr(r) /\ r >= 32 /\ r <= 126
IsCtrl(r) == /\ ~IsRepl(r) /\ ~IsCyr(r) /\ ~IsAsciiPrint(r)
             /\ r < 32 /\ r # 10 /\ r # 9 /\ r # 13

scoreCyrillicText(s) ==
    IF s = <<>> THEN -1000000
    ELSE LET rs == Runes(s)
             cyr == Cardinality({k \in 1..Len(rs) : IsCyr(rs[k])})
             asciiPrint == Cardinality({k \in 1..Len(rs) : IsAsciiPrint(rs[k])})
             repl == Cardinality({k \in 1..Len(rs) : IsRepl(rs[k])})
             ctrl == Cardinality({k \in 1..Len(rs) : IsCtrl(rs[k])})
         IN  3 * cyr + asciiPrint - 50 * repl - 5 * ctrl

\* A variant that takes the first candidate without comparing scores.
BestFrom_First(bs, k, best) ==
    [text |-> CharmapDecode(Candidates[1], bs),
     score |-> scoreCyrillicText(CharmapDecode(Candidates[1], bs))]

\* The loop of decodeBestCyrillic over candidates k..5.
RECURSIVE BestFrom(_, _, _)
BestFrom(bs, k, best) ==
    IF k > Len(Candidates) THEN best
    ELSE LET text == CharmapDecode(Candidates[k], bs)
             score == scoreCyrillicText(text)
         IN  IF score > best.score
             THEN BestFrom(bs, k + 1, [text |-> text, score |-> score])
             ELSE BestFrom(bs, k + 1, best)

decodeBestCyrillic(bs) ==
    LET best == BestFrom(bs, 1, [text |-> <<>>, score |-> -2147483647 - 1])
    IN  IF best.text = <<>> THEN [text |-> <<>>, ok |-> FALSE]
        ELSE IF \E k \in 1..Len(Runes(best.text)) : Runes(best.text)[k] = ReplacementChar
             THEN [text |-> <<>>, ok |-> FALSE]
        ELSE [text |-> best.text, ok |-> TRUE]

\* The final fallback of extractTXT: one rune per byte.
latin1Fallback(bs) == NormalizeNewlines(EncodeRunes(bs))

\* A variant that decodes UTF-16 strictly and fails on a dangling byte.
extractTXTPath_StrictUtf16(bs) ==
    IF (IsBomLE(bs) \/ IsBomBE(bs)) /\ Len(bs) % 2 = 1
    THEN [text |-> <<>>,
          err |-> [kind |-> "errors.New", msg |-> "odd utf-16 length", code |-> 0, ext |-> <<>>],
          path |-> "utf16"]
    ELSE
        IF IsBomLE(bs)
        THEN [text |-> NormalizeNewlines(EncodeRunes(Utf16Decode(Utf16Units(bs, TRUE)))),
              err |-> Nil, path |-> "utf16le"]
        ELSE IF IsBomBE(bs)
        THEN [text |-> NormalizeNewlines(EncodeRunes(Utf16Decode(Utf16Units(bs, FALSE)))),
              err |-> Nil, path |-> "utf16be"]
        ELSE IF Utf8Valid(bs)
        THEN [text |-> NormalizeNewlines(bs), err |-> Nil, path |-> "utf8"]
        ELSE IF decodeBestCyrillic(bs).ok
        THEN [text |-> NormalizeNewlines(decodeBestCyrillic(bs).text), err |-> Nil,
              path |-> "cyrillic"]
        ELSE [text |-> latin1Fallback(bs), err |-> Nil, path |-> "latin1"]

\* extractTXT, with the return statement it leaves by.
extractTXTPath(bs) ==
    IF IsBomLE(bs)
    THEN [text |-> NormalizeNewlines(EncodeRunes(Utf16Decode(Utf16Units(bs, TRUE)))),
          err |-> Nil, path |-> "utf16le"]
    ELSE IF IsBomBE(bs)
    THEN [text |-> NormalizeNewlines(EncodeRunes(Utf16Decode(Utf16Units(bs, FALSE)))),
          err |-> Nil, path |-> "utf16be"]
    ELSE IF Utf8Valid(bs)
    THEN [text |-> NormalizeNewlines(bs), err |-> Nil, path |-> "utf8"]
    ELSE IF decodeBestCyrillic(bs).ok
    THEN [text |-> NormalizeNewlines(decodeBestCyrillic(bs).text), err |-> Nil,
          path |-> "cyrillic"]
    ELSE [text |-> latin1Fallback(bs), err |-> Nil, path |-> "latin1"]

extractTXT(bs) == [text |-> extractTXTPath(bs).text, err |-> extractTXTPath(bs).err]

(***************************************************************************)
(* The specification of extractTXT: one call on one input.                 *)
(***************************************************************************)
MaxTxtLen == 4    \* longest TXT input drawn from TxtBytes

Seqs(S, n) == UNION {[1..k -> S] : k \in 0..n}

\* NUL, LF, CR, 'H', a continuation byte, a two-byte lead, and the two bytes
\* of a UTF-16 BOM.
TxtBytes == {0, 10, 13, 72, 144, 208, 254, 255}

TxtFixtures ==
    { <<255, 254, 72, 0, 105, 0>>,                \* UTF-16LE "Hi"
      <<254, 255, 0, 72, 0, 105>>,                \* UTF-16BE "Hi"
      <<207, 240, 232, 226, 229, 242>>,           \* Windows-1251 "Привет"
      <<72, 105, 13, 10, 208, 159, 13>>,          \* UTF-8 "Hi\r\nП\r"
      <<152>>, <<152, 13>>, <<152, 13, 10>>, <<13, 152, 255>>, \* 0x98: unassigned in Windows-1251
      <<255, 254, 13, 0, 10, 0, 72, 0, 13, 0>>,   \* UTF-16LE "\r\nH\r"
      <<254, 255, 0, 13, 0, 10, 0, 72>>,          \* UTF-16BE "\r\nH"
      <<255, 254, 61, 216, 0, 222>>,              \* UTF-16LE U+1F600, a surrogate pair
      <<255, 254, 208, 144>> }                    \* valid UTF-8 after the BOM

TxtInputs == Seqs(TxtBytes, MaxTxtLen) \cup TxtFixtures

TxtCall ==
    /\ pc = "txt"
    /\ ret' = extractTXT(data)
    /\ path' = extractTXTPath(data).path
    /\ pc' = "done"
    /\ UNCHANGED <<filename, data, ran, batchVars, pdfVars, rtfVars, b, docxVars>>

InitTXT ==
    /\ pc = "txt"
    /\ filename = <<"x", ".", "t", "x", "t">>
    /\ data \in TxtInputs
    /\ ret = NoRet
    /\ ran = <<"txt">>
    /\ PdfIdle /\ TxtIdle /\ RtfIdle /\ BatchIdle /\ DocxIdle

NextTXT == TxtCall

SpecTXT == InitTXT /\ [][NextTXT]_vars

(***************************************************************************)
(* Properties of extractTXT.                                               *)
(***************************************************************************)

\* Line endings in one pass: CR LF and a bare CR each become one LF.
RECURSIVE LineEndingsToLF(_)
LineEndingsToLF(s) ==
    IF s = <<>> THEN <<>>
    ELSE IF s[1] # 13 THEN <<s[1]>> \o LineEndingsToLF(Tail(s))
    ELSE IF Len(s) >= 2 /\ s[2] = 10 THEN <<10>> \o LineEndingsToLF(Tail(Tail(s)))
    ELSE <<10>> \o LineEndingsToLF(Tail(s))

\* C5: for a valid UTF-8 input with no UTF-16 BOM, extractTXT returns the
\* input with every CR LF and every bare CR replaced by LF and nothing else
\* changed, through the UTF-8 return (no charset scoring, no fallback).
C5_Utf8PassThrough ==
    (pc = "done" /\ Utf8Valid(data) /\ ~IsBomLE(data) /\ ~IsBomBE(data)) =>
        /\ ret = [text |-> LineEndingsToLF(data), err |-> Nil]
        /\ path = "utf8"

\* C5 witness: a two-byte UTF-8 letter followed by CR LF came back with LF.
C5_Witness ==
    /\ pc = "done"
    /\ data = <<208, 144, 13, 10>>
    /\ ret.text = <<208, 144, 10>>
    /\ path = "utf8"

\* C6: extractTXT returns no error for any byte sequence, and its final
\* fallback maps each raw byte to the code point of the same value (line
\* endings normalized).
C6_NeverFails ==
    pc = "done" =>
        /\ ret.err = Nil
        /\ Runes(latin1Fallback(data)) = LineEndingsToLF(data)
        /\ path = "latin1" => ret.text = latin1Fallback(data)

\* C6 witness: a UTF-16 BOM followed by a dangling byte returned without error.
C6_Witness ==
    /\ pc = "done"
    /\ data = <<255, 254, 72>>
    /\ ret = [text |-> <<>>, err |-> Nil]

\* The 16-bit units of a byte sequence, two bytes each; a last single byte
\* makes no unit.
RECURSIVE BodyUnits(_, _)
BodyUnits(s, littleEndian) ==
    IF Len(s) < 2 THEN <<>>
    ELSE <<IF littleEndian THEN s[1] + 256 * s[2] ELSE 256 * s[1] + s[2]>>
             \o BodyUnits(Tail(Tail(s)), littleEndian)

\* The text a UTF-16 input stands for: the units after the two-byte BOM,
\* decoded, with line endings normalized.
Utf16Text(bs, littleEndian) ==
    LineEndingsToLF(EncodeRunes(Utf16Decode(BodyUnits(SubSeq(bs, 3, Len(bs)), littleEndian))))

\* C11: an input that begins with FF FE (FE FF) comes back as the UTF-16
\* little-endian (big-endian) decoding of the bytes after the BOM, with line
\* endings normalized, through the UTF-16 return, whatever UTF-8 validation
\* or charset scoring would make of it; FF FE 48 00 69 00 is "Hi".
C11_Utf16Bom ==
    /\ (pc = "done" /\ IsBomLE(data)) =>
            /\ ret = [text |-> Utf16Text(data, TRUE), err |-> Nil]
            /\ path = "utf16le"
    /\ (pc = "done" /\ IsBomBE(data)) =>
            /\ ret = [text |-> Utf16Text(data, FALSE), err |-> Nil]
            /\ path = "utf16be"
    /\ (pc = "done" /\ data = <<255, 254, 72, 0, 105, 0>>) => ret.text = <<72, 105>>

\* C11 witness: UTF-16LE "\r\nH\r" came back as "\nH\n".
C11_Witness ==
    /\ pc = "done"
    /\ data = <<255, 254, 13, 0, 10, 0, 72, 0, 13, 0>>
    /\ ret.text = <<10, 72, 10>>
    /\ path = "utf16le"

HasReplacement(s) == \E k \in 1..Len(Runes(s)) : Runes(s)[k] = ReplacementChar

\* C12: an input with no BOM that is not valid UTF-8 is decoded under the
\* five candidates; a decoding whose score no other candidate exceeds is
\* taken, returned (line endings normalized) if it holds no U+FFFD, and
\* otherwise the byte-to-code-point fallback is returned.
C12_BestCandidate ==
    (pc = "done" /\ ~IsBomLE(data) /\ ~IsBomBE(data) /\ ~Utf8Valid(data)) =>
        \E k \in 1..5 :
            LET t == CharmapDecode(Candidates[k], data)
            IN  /\ \A j \in 1..5 :
                      scoreCyrillicText(t) >= scoreCyrillicText(CharmapDecode(Candidates[j], data))
                /\ ~HasReplacement(t) =>
                      /\ ret = [text |-> LineEndingsToLF(t), err |-> Nil]
                      /\ path = "cyrillic"
                /\ HasReplacement(t) =>
                      /\ ret = [text |-> latin1Fallback(data), err |-> Nil]
                      /\ path = "latin1"

\* C12 witness: byte 98 (hex), a letter only under Macintosh Cyrillic and
\* CP866, came back as that letter.
C12_Witness ==
    /\ pc = "done"
    /\ data = <<152>>
    /\ path = "cyrillic"
    /\ ret = [text |-> EncodeRune(1064), err |-> Nil]

\* C15: whatever the input and the return it leaves by, the text extractTXT
\* returns holds no carriage return; nor does the text of the final fallback.
C15_NoCarriageReturn ==
    pc = "done" =>
        /\ \A k \in 1..Len(ret.text) : ret.text[k] # 13
        /\ \A k \in 1..Len(latin1Fallback(data)) : latin1Fallback(data)[k] # 13

\* C15 witness: a legacy-charset input that ends with a bare carriage return
\* came back ending with a line feed.
C15_Witness ==
    /\ pc = "done"
    /\ data = <<152, 13>>
    /\ path = "cyrillic"
    /\ ret.text = EncodeRune(1064) \o <<10>>

(***************************************************************************)
(* extractRTF: the tokenizer.  The cursor i is 0-based as in the code, so  *)
(* the byte data[i] of the code is bs[i + 1] here.                         *)
(***************************************************************************)
isLetter(c) == (c >= 97 /\ c <= 122) \/ (c >= 65 /\ c <= 90)
IsDigit(c) == c >= 48 /\ c <= 57

W_par == <<112, 97, 114>>
W_line == <<108, 105, 110, 101>>
W_tab == <<116, 97, 98>>
W_u == <<117>>
Destinations ==
    { <<102, 111, 110, 116, 116, 98, 108>>,          \* fonttbl
      <<99, 111, 108, 111, 114, 116, 98, 108>>,     \* colortbl
      <<115, 116, 121, 108, 101, 115, 104, 101, 101, 116>>,  \* stylesheet
      <<105, 110, 102, 111>>,                       \* info
      <<112, 105, 99, 116>>,                        \* pict
      <<104, 101, 97, 100, 101, 114>>,              \* header
      <<102, 111, 111, 116, 101, 114>> }             \* footer

\* for i < len(data) && isLetter(data[i]) { i++ }
RECURSIVE LettersEnd(_, _)
LettersEnd(bs, k) ==
    IF k < Len(bs) /\ isLetter(bs[k + 1]) THEN LettersEnd(bs, k + 1) ELSE k

\* for i < len(data) && data[i] >= '0' && data[i] <= '9' { i++ }
RECURSIVE DigitsEnd(_, _)
DigitsEnd(bs, k) ==
    IF k < Len(bs) /\ IsDigit(bs[k + 1]) THEN DigitsEnd(bs, k + 1) ELSE k

\* strconv.Atoi on a string of decimal digits (not empty, within int).
RECURSIVE Atoi(_)
Atoi(ds) ==
    IF ds = <<>> THEN 0 ELSE Atoi(SubSeq(ds, 1, Len(ds) - 1)) * 10 + (ds[Len(ds)] - 48)

\* The value of a hexadecimal digit, -1 if c is none.
HexVal(c) ==
    IF c >= 48 /\ c <= 57 THEN c - 48
    ELSE IF c >= 97 /\ c <= 102 THEN c - 87
    ELSE IF c >= 65 /\ c <= 70 THEN c - 55
    ELSE -1

Emit(st, bytes) == IF st.skip < 0 THEN st.b \o bytes ELSE st.b

\* A variant in which an opening brace moves the skip marker with the depth.
StepOpen_MovesMarker(bs, st) ==
    [st EXCEPT !.skip = IF st.skip >= 0 THEN st.depth + 1 ELSE st.skip,
               !.depth = st.depth + 1,
               !.i = st.i + 1]

\* case '{'
StepOpen(bs, st) == [st EXCEPT !.depth = st.depth + 1, !.i = st.i + 1]

\* A variant in which any closing brace ends the skip region.
StepClose_AnyDepth(bs, st) ==
    [st EXCEPT !.skip = -1,
               !.depth = IF st.depth > 0 THEN st.depth - 1 ELSE st.depth,
               !.i = st.i + 1]

\* A variant in which a closing brace lowers the depth whatever it is.
StepClose_NoFloor(bs, st) ==
    [st EXCEPT !.skip = IF st.skip >= 0 /\ st.depth = st.skip THEN -1 ELSE st.skip,
               !.depth = st.depth - 1,
               !.i = st.i + 1]

\* case '}'
StepClose(bs, st) ==
    [st EXCEPT !.skip = IF st.skip >= 0 /\ st.depth = st.skip THEN -1 ELSE st.skip,
               !.depth = IF st.depth > 0 THEN st.depth - 1 ELSE st.depth,
               !.i = st.i + 1]

\* case '\\' as the last byte of the input: the switch is left.
StepBackslashEnd(bs, st) == [st EXCEPT !.i = st.i + 1]

\* A variant that steps over the two digits of a hex escape without asking
\* whether the input has them.
StepSymbol_HexUnguarded(bs, st) ==
    LET sym == bs[st.i + 2]
        k == st.i + 2
    IN  IF sym = 39 THEN [st EXCEPT !.i = k + 2]
        ELSE IF sym \in {92, 123, 125} THEN [st EXCEPT !.b = Emit(st, <<sym>>), !.i = k]
        ELSE IF sym = 126 THEN [st EXCEPT !.b = Emit(st, <<32>>), !.i = k]
        ELSE IF sym = 95 THEN [st EXCEPT !.b = Emit(st, <<45>>), !.i = k]
        ELSE IF sym = 42
             THEN [st EXCEPT !.skip = IF st.skip < 0 THEN st.depth ELSE st.skip, !.i = k]
        ELSE [st EXCEPT !.i = k]

\* case '\\' followed by a byte that is no letter: a control symbol.
StepSymbol(bs, st) ==
    LET sym == bs[st.i + 2]
        k == st.i + 2                             \* the cursor after the symbol
    IN  IF sym \in {92, 123, 125} THEN [st EXCEPT !.b = Emit(st, <<sym>>), !.i = k]
        ELSE IF sym = 126 THEN [st EXCEPT !.b = Emit(st, <<32>>), !.i = k]
        ELSE IF sym = 45 THEN [st EXCEPT !.i = k]
        ELSE IF sym = 95 THEN [st EXCEPT !.b = Emit(st, <<45>>), !.i = k]
        ELSE IF sym = 42
             THEN [st EXCEPT !.skip = IF st.skip < 0 THEN st.depth ELSE st.skip, !.i = k]
        ELSE IF sym = 39
             THEN IF k + 1 < Len(bs)
                  THEN LET hi == HexVal(bs[k + 1])
                           lo == HexVal(bs[k + 2])
                       IN  IF hi >= 0 /\ lo >= 0
                           THEN [st EXCEPT !.b = Emit(st, <<16 * hi + lo>>), !.i = k + 2]
                           ELSE [st EXCEPT !.i = k + 2]
                  ELSE [st EXCEPT !.i = k]
        ELSE [st EXCEPT !.i = k]

\* A variant that leaves the space after a control word to the next step.
StepWord_KeepSpace(bs, st) ==
    LET n == Len(bs)
        start == st.i + 1
        wEnd == LettersEnd(bs, start)
        word == SubSeq(bs, start + 1, wEnd)
        hasNum == wEnd < n /\ (bs[wEnd + 1] = 45 \/ IsDigit(bs[wEnd + 1]))
        neg == hasNum /\ bs[wEnd + 1] = 45
        numStart == IF neg THEN wEnd + 1 ELSE wEnd
        numEnd == IF hasNum THEN DigitsEnd(bs, numStart) ELSE wEnd
        numStr == SubSeq(bs, numStart + 1, numEnd)
        isU == hasNum /\ word = W_u /\ numStr # <<>>
        v == IF neg THEN 0 - Atoi(numStr) ELSE Atoi(numStr)
        st1 == IF isU THEN [st EXCEPT !.b = Emit(st, EncodeRune(v))] ELSE st
        k1 == IF isU /\ numEnd < n /\ bs[numEnd + 1] = 63 THEN numEnd + 1 ELSE numEnd
        st2 == IF word \in {W_par, W_line} THEN [st1 EXCEPT !.b = Emit(st1, <<10>>)]
               ELSE IF word = W_tab THEN [st1 EXCEPT !.b = Emit(st1, <<9>>)]
               ELSE IF word \in Destinations
                    THEN [st1 EXCEPT !.skip = IF st1.skip < 0 THEN st1.depth ELSE st1.skip]
               ELSE st1
        k2 == k1
    IN  [st2 EXCEPT !.i = k2]

\* case '\\' followed by a letter: a control word, its numeric argument and
\* the space that ends it.
StepWord(bs, st) ==
    LET n == Len(bs)
        start == st.i + 1
        wEnd == LettersEnd(bs, start)
        word == SubSeq(bs, start + 1, wEnd)
        hasNum == wEnd < n /\ (bs[wEnd + 1] = 45 \/ IsDigit(bs[wEnd + 1]))
        neg == hasNum /\ bs[wEnd + 1] = 45
        numStart == IF neg THEN wEnd + 1 ELSE wEnd
        numEnd == IF hasNum THEN DigitsEnd(bs, numStart) ELSE wEnd
        numStr == SubSeq(bs, numStart + 1, numEnd)
        isU == hasNum /\ word = W_u /\ numStr # <<>>
        v == IF neg THEN 0 - Atoi(numStr) ELSE Atoi(numStr)
        st1 == IF isU THEN [st EXCEPT !.b = Emit(st, EncodeRune(v))] ELSE st
        k1 == IF isU /\ numEnd < n /\ bs[numEnd + 1] = 63 THEN numEnd + 1 ELSE numEnd
        st2 == IF word \in {W_par, W_line} THEN [st1 EXCEPT !.b = Emit(st1, <<10>>)]
               ELSE IF word = W_tab THEN [st1 EXCEPT !.b = Emit(st1, <<9>>)]
               ELSE IF word \in Destinations
                    THEN [st1 EXCEPT !.skip = IF st1.skip < 0 THEN st1.depth ELSE st1.skip]
               ELSE st1
        k2 == IF k1 < n /\ bs[k1 + 1] = 32 THEN k1 + 1 ELSE k1
    IN  [st2 EXCEPT !.i = k2]

\* A variant that writes carriage returns and line feeds like any raw byte.
StepRaw_KeepNewlines(bs, st) ==
    [st EXCEPT !.b = Emit(st, <<bs[st.i + 1]>>), !.i = st.i + 1]

\* default: a raw byte; carriage return and line feed are dropped.
StepRaw(bs, st) ==
    LET c == bs[st.i + 1]
    IN  IF c = 13 \/ c = 10 THEN [st EXCEPT !.i = st.i + 1]
        ELSE [st EXCEPT !.b = Emit(st, <<c>>), !.i = st.i + 1]

\* The kind of token at the cursor (st.i < Len(bs)).
TokenKind(bs, k) ==
    LET c == bs[k + 1]
    IN  IF c = 123 THEN "open"
        ELSE IF c = 125 THEN "close"
        ELSE IF c = 92
             THEN IF k + 1 >= Len(bs) THEN "backslash_end"
                  ELSE IF isLetter(bs[k + 2]) THEN "word" ELSE "symbol"
        ELSE "raw"

\* One iteration of the tokenizer loop.
RtfStep(bs, st) ==
    LET kind == TokenKind(bs, st.i)
    IN  IF kind = "open" THEN StepOpen(bs, st)
        ELSE IF kind = "close" THEN StepClose(bs, st)
        ELSE IF kind = "backslash_end" THEN StepBackslashEnd(bs, st)
        ELSE IF kind = "symbol" THEN StepSymbol(bs, st)
        ELSE IF kind = "word" THEN StepWord(bs, st)
        ELSE StepRaw(bs, st)

RECURSIVE RtfRun(_, _)
RtfRun(bs, st) == IF st.i < Len(bs) THEN RtfRun(bs, RtfStep(bs, st)) ELSE st

RtfStart == [i |-> 0, depth |-> 0, skip |-> -1, b |-> <<>>]

\* A variant that replaces each pair of line feeds by one, left to right.
RECURSIVE CollapseNewlines_Pairs(_)
CollapseNewlines_Pairs(s) ==
    IF s = <<>> THEN <<>>
    ELSE IF s[1] = 10 /\ Len(s) >= 2 /\ s[2] = 10
         THEN <<10>> \o CollapseNewlines_Pairs(Tail(Tail(s)))
         ELSE <<s[1]>> \o CollapseNewlines_Pairs(Tail(s))

\* reNewlines.ReplaceAllString(out, "\n"): \n{2,} becomes one \n.
RECURSIVE CollapseNewlines(_)
CollapseNewlines(s) ==
    IF s = <<>> THEN <<>>
    ELSE IF s[1] = 10 /\ Len(s) >= 2 /\ s[2] = 10 THEN CollapseNewlines(Tail(s))
    ELSE <<s[1]>> \o CollapseNewlines(Tail(s))

IsBlank(c) == c = 32 \/ c = 9
IsSpace(c) == c \in {9, 10, 12, 13, 32}           \* \s
IsPunct(c) == c \in {44, 46, 58, 59, 33, 63}      \* [,.:;!?]

RECURSIVE BlankRunEnd(_, _)
BlankRunEnd(s, k) == IF k < Len(s) /\ IsBlank(s[k + 1]) THEN BlankRunEnd(s, k + 1) ELSE k

\* reSpaces.ReplaceAllString(out, " "): [ \t]{2,} becomes one space.
RECURSIVE CollapseSpaces(_)
CollapseSpaces(s) ==
    IF s = <<>> THEN <<>>
    ELSE LET e == BlankRunEnd(s, 0)
         IN  IF e >= 2 THEN <<32>> \o CollapseSpaces(SubSeq(s, e + 1, Len(s)))
             ELSE <<s[1]>> \o CollapseSpaces(Tail(s))

RECURSIVE SpaceRunEnd(_, _)
SpaceRunEnd(s, k) == IF k < Len(s) /\ IsSpace(s[k + 1]) THEN SpaceRunEnd(s, k + 1) ELSE k

\* reSpaceBeforePunct.ReplaceAllString(out, "$1"): \s+([,.:;!?]) becomes the
\* punctuation mark.
RECURSIVE StripSpaceBeforePunct(_)
StripSpaceBeforePunct(s) ==
    IF s = <<>> THEN <<>>
    ELSE LET e == SpaceRunEnd(s, 0)
         IN  IF e >= 1 /\ e < Len(s) /\ IsPunct(s[e + 1])
             THEN <<s[e + 1]>> \o StripSpaceBeforePunct(SubSeq(s, e + 2, Len(s)))
             ELSE IF e >= 1
             THEN SubSeq(s, 1, e) \o StripSpaceBeforePunct(SubSeq(s, e + 1, Len(s)))
             ELSE <<s[1]>> \o StripSpaceBeforePunct(Tail(s))

\* The post-pass normalization of extractRTF.
RtfNormalize(s) == StripSpaceBeforePunct(CollapseSpaces(CollapseNewlines(NormalizeNewlines(s))))

\* What extractRTF returns for the builder's content.
RtfFinish(built) ==
    LET norm == RtfNormalize(built)
    IN  IF ~Utf8Valid(norm) /\ IsBomLE(norm)
        THEN [text |-> EncodeRunes(Utf16Decode(Utf16Units(norm, TRUE))), err |-> Nil]
        ELSE IF ~Utf8Valid(norm) /\ IsBomBE(norm)
        THEN [text |-> EncodeRunes(Utf16Decode(Utf16Units(norm, FALSE))), err |-> Nil]
        ELSE [text |-> norm, err |-> Nil]

extractRTF(bs) == RtfFinish(RtfRun(bs, RtfStart).b)

(***************************************************************************)
(* The specification of extractRTF: one call, one tokenizer iteration per  *)
(* step.                                                                   *)
(***************************************************************************)
MaxRtfToks == 4   \* most vocabulary items an RTF input is built from

RtfVocab ==
    { <<123>>,                                    \* {
      <<125>>,                                    \* }
      <<92>>,                                     \* a backslash
      <<92, 102, 111, 110, 116, 116, 98, 108>>,     \* \fonttbl
      <<92, 42>>,                                 \* \*
      <<92, 112, 97, 114>>,                      \* \par
      <<92, 39>>,                                 \* \'
      <<84>>,                                     \* T
      <<32>>,                                     \* a space
      <<13>> }                                    \* a carriage return

RECURSIVE Flatten(_)
Flatten(ss) == IF ss = <<>> THEN <<>> ELSE ss[1] \o Flatten(Tail(ss))

Rtf_FontTable == <<123, 92, 102, 111, 110, 116, 116, 98, 108, 123, 92, 102, 48, 32, 65, 114, 105, 97, 108, 59, 125, 125, 84, 101, 120, 116>>
Rtf_HelloWorld == <<123, 92, 114, 116, 102, 49, 32, 72, 101, 108, 108, 111, 92, 112, 97, 114, 32, 87, 111, 114, 108, 100, 125>>
Rtf_Unicode == <<123, 92, 114, 116, 102, 49, 32, 92, 117, 57, 52, 55, 50, 63, 125>>
Text_Text == <<84, 101, 120, 116>>

\* {\rtf1 \u-3913?}
Rtf_UnicodeNegative == <<123, 92, 114, 116, 102, 49, 32, 92, 117, 45, 51, 57, 49, 51, 63, 125>>
\* {\*\u9472?}T
Rtf_UnicodeSkipped == <<123, 92, 42, 92, 117, 57, 52, 55, 50, 63, 125, 84>>
\* A\'0aB
Rtf_HexLineFeed == <<65, 92, 39, 48, 97, 66>>
\* A\u10?B
Rtf_UnicodeLineFeed == <<65, 92, 117, 49, 48, 63, 66>>
\* A\line B\par  C<CR><LF>D
Rtf_LineBreaks == <<65, 92, 108, 105, 110, 101, 32, 66, 92, 112, 97, 114, 32, 32, 67, 13, 10, 68>>

\* A\'4 : the input ends inside a hex escape
Rtf_TruncHex == <<65, 92, 39, 52>>
\* A\par- : the input ends at the sign of an argument
Rtf_TruncSign == <<65, 92, 112, 97, 114, 45>>
\* \u-12 : the input ends inside the argument of the control word u
Rtf_TruncUnicode == <<92, 117, 45, 49, 50>>

RtfFixtures ==
    {Rtf_FontTable, Rtf_HelloWorld, Rtf_Unicode, Rtf_UnicodeNegative, Rtf_UnicodeSkipped, Rtf_HexLineFeed,
     Rtf_UnicodeLineFeed, Rtf_LineBreaks, Rtf_TruncHex, Rtf_TruncSign, Rtf_TruncUnicode}

RtfInputs == {Flatten(ts) : ts \in Seqs(RtfVocab, MaxRtfToks)} \cup RtfFixtures

RtfState == [i |-> i, depth |-> depth, skip |-> skipUntilDepth, b |-> b]

RtfAt(kind) ==
    /\ pc = "rtf_loop"
    /\ i < Len(data)
    /\ TokenKind(data, i) = kind

RtfSet(st) ==
    /\ i' = st.i
    /\ depth' = st.depth
    /\ skipUntilDepth' = st.skip
    /\ b' = st.b
    /\ UNCHANGED <<pc, callVars, batchVars, pdfVars, path, docxVars>>

RtfOpen == RtfAt("open") /\ RtfSet(StepOpen(data, RtfState))
RtfClose == RtfAt("close") /\ RtfSet(StepClose(data, RtfState))
RtfBackslashEnd == RtfAt("backslash_end") /\ RtfSet(StepBackslashEnd(data, RtfState))
RtfSymbol == RtfAt("symbol") /\ RtfSet(StepSymbol(data, RtfState))
RtfWord == RtfAt("word") /\ RtfSet(StepWord(data, RtfState))
RtfRaw == RtfAt("raw") /\ RtfSet(StepRaw(data, RtfState))

\* The loop has ended: normalize and return.
RtfReturn ==
    /\ pc = "rtf_loop"
    /\ i >= Len(data)
    /\ ret' = RtfFinish(b)
    /\ pc' = "done"
    /\ UNCHANGED <<filename, data, ran, batchVars, pdfVars, path, rtfVars, b, docxVars>>

InitRTF ==
    /\ pc = "rtf_loop"
    /\ filename = <<"x", ".", "r", "t", "f">>
    /\ data \in RtfInputs
    /\ ret = NoRet
    /\ ran = <<"rtf">>
    /\ PdfIdle /\ TxtIdle /\ RtfIdle /\ BatchIdle /\ DocxIdle

NextRTF ==
    \/ RtfOpen \/ RtfClose \/ RtfBackslashEnd \/ RtfSymbol \/ RtfWord \/ RtfRaw
    \/ RtfReturn

SpecRTF == InitRTF /\ [][NextRTF]_vars

(***************************************************************************)
(* Properties of extractRTF.                                               *)
(***************************************************************************)

\* The token at the cursor begins a destination: \* or a destination word.
AtDestination ==
    \/ /\ TokenKind(data, i) = "symbol"
       /\ data[i + 2] = 42
    \/ /\ TokenKind(data, i) = "word"
       /\ SubSeq(data, i + 2, LettersEnd(data, i + 1)) \in Destinations

\* C7: a destination met at depth d >= 1 while not skipping starts a skip
\* region at d; while the region lasts no token adds to the output; the
\* region outlasts every token but the '}' met at depth d, nested groups
\* included, and ends with that '}'; {\fonttbl{\f0 Arial;}}Text yields Text.
C7_DestinationSkipped ==
    /\ [][ (pc = "rtf_loop" /\ i < Len(data)) =>
            /\ (AtDestination /\ depth >= 1 /\ skipUntilDepth < 0) =>
                    (skipUntilDepth' = depth /\ b' = b)
            /\ skipUntilDepth >= 0 => b' = b
            /\ (skipUntilDepth >= 0 /\ ~(TokenKind(data, i) = "close" /\ depth = skipUntilDepth))
                    => skipUntilDepth' = skipUntilDepth
            /\ (skipUntilDepth >= 0 /\ TokenKind(data, i) = "close" /\ depth = skipUntilDepth)
                    => skipUntilDepth' = -1
         ]_vars
    /\ [](pc = "done" /\ data = Rtf_FontTable => ret = [text |-> Text_Text, err |-> Nil])

\* C7 witness: the font table example has been extracted and only Text is left.
C7_Witness ==
    /\ pc = "done"
    /\ data = Rtf_FontTable
    /\ ret.text = Text_Text

\* The control word at the cursor k (a backslash followed by a letter), read
\* off the input: where its letters end, its name, whether an argument
\* follows, where the argument's digits begin and end.
WordLettersEnd(bs, k) ==
    CHOOSE j \in (k + 1)..Len(bs) :
        /\ j = Len(bs) \/ ~isLetter(bs[j + 1])
        /\ \A m \in (k + 1)..(j - 1) : isLetter(bs[m + 1])

WordName(bs, k) == SubSeq(bs, k + 2, WordLettersEnd(bs, k))

WordHasArg(bs, k) ==
    LET e == WordLettersEnd(bs, k)
    IN  e < Len(bs) /\ (bs[e + 1] = 45 \/ IsDigit(bs[e + 1]))

WordArgNegative(bs, k) == WordHasArg(bs, k) /\ bs[WordLettersEnd(bs, k) + 1] = 45

WordDigitsStart(bs, k) ==
    IF WordArgNegative(bs, k) THEN WordLettersEnd(bs, k) + 1 ELSE WordLettersEnd(bs, k)

WordDigitsEnd(bs, k) ==
    LET from == WordDigitsStart(bs, k)
    IN  CHOOSE j \in from..Len(bs) :
            /\ j = Len(bs) \/ ~IsDigit(bs[j + 1])
            /\ \A m \in from..(j - 1) : IsDigit(bs[m + 1])

\* The value of a string of decimal digits.
RECURSIVE DecimalValue(_, _)
DecimalValue(ds, acc) ==
    IF ds = <<>> THEN acc ELSE DecimalValue(Tail(ds), 10 * acc + (ds[1] - 48))

\* The signed argument of the control word at the cursor.
WordArg(bs, k) ==
    LET v == DecimalValue(SubSeq(bs, WordDigitsStart(bs, k) + 1, WordDigitsEnd(bs, k)), 0)
    IN  IF WordArgNegative(bs, k) THEN 0 - v ELSE v

\* Where the control word and its argument end.
WordEnd(bs, k) == IF WordHasArg(bs, k) THEN WordDigitsEnd(bs, k) ELSE WordLettersEnd(bs, k)

\* The cursor is at a control word u that has an argument with digits.
AtUnicodeEscape ==
    /\ pc = "rtf_loop"
    /\ i < Len(data)
    /\ TokenKind(data, i) = "word"
    /\ WordName(data, i) = <<117>>
    /\ WordHasArg(data, i)
    /\ WordDigitsEnd(data, i) > WordDigitsStart(data, i)

\* What the step has added to the output.
Appended == SubSeq(b', Len(b) + 1, Len(b'))

\* The code point an argument of the control word u names: RTF writes the
\* 16-bit values above 32767 as negative numbers.
CodePointOf(n) == IF n < 0 THEN n + 65536 ELSE n

\* C13: a control word u with the signed decimal argument N adds exactly
\* the code point N to the output when not skipping and nothing when
\* skipping, and a '?' right after the argument is consumed by the same
\* step; the control word u with argument 9472 and a '?' gives U+2500 and
\* no '?'.
C13_UnicodeEscape ==
    /\ [][AtUnicodeEscape =>
            /\ skipUntilDepth < 0 =>
                  /\ SubSeq(b', 1, Len(b)) = b
                  /\ Runes(Appended) = <<CodePointOf(WordArg(data, i))>>
            /\ skipUntilDepth >= 0 => b' = b
            /\ (WordEnd(data, i) < Len(data) /\ data[WordEnd(data, i) + 1] = 63) =>
                  i' > WordEnd(data, i)]_vars
    /\ [](pc = "done" /\ data = Rtf_Unicode => ret = [text |-> <<226, 148, 128>>, err |-> Nil])

\* The cursor is at a control word.
AtWord == pc = "rtf_loop" /\ i < Len(data) /\ TokenKind(data, i) = "word"

\* Where the control word at the cursor ends: after its letters, its
\* argument, and the '?' that follows the argument of a control word u.
WordTokenEnd ==
    LET e == WordEnd(data, i)
    IN  IF AtUnicodeEscape /\ e < Len(data) /\ data[e + 1] = 63 THEN e + 1 ELSE e

\* C16: par and line each add exactly one line feed when not skipping and
\* nothing when skipping; a control word takes the one space that follows
\* it or its argument and adds no space to the output; a space met as a raw
\* byte is added when not skipping; {\rtf1 Hello\par World} yields
\* "Hello\nWorld".
C16_ParLineAndDelimiter ==
    /\ [][AtWord =>
            /\ WordName(data, i) \in {W_par, W_line} =>
                  b' = IF skipUntilDepth < 0 THEN Append(b, 10) ELSE b
            /\ i' = IF WordTokenEnd < Len(data) /\ data[WordTokenEnd + 1] = 32
                    THEN WordTokenEnd + 1 ELSE WordTokenEnd
            /\ WordName(data, i) # W_u => \A k \in 1..Len(Appended) : Appended[k] # 32]_vars
    /\ [][(pc = "rtf_loop" /\ i < Len(data) /\ data[i + 1] = 32) =>
            /\ i' = i + 1
            /\ b' = IF skipUntilDepth < 0 THEN Append(b, 32) ELSE b]_vars
    /\ [](pc = "done" /\ data = Rtf_HelloWorld =>
            ret = [text |-> <<72, 101, 108, 108, 111, 10, 87, 111, 114, 108, 100>>, err |-> Nil])

\* C16 witness: \par followed by two spaces and T left a line feed, one
\* space and T.
C16_Witness ==
    /\ pc = "done"
    /\ data = <<92, 112, 97, 114, 32, 32, 84>>
    /\ b = <<10, 32, 84>>
    /\ ret.text = <<10, 32, 84>>

\* C17: the skip marker is set to the depth current at that moment, by a
\* destination met while not skipping; once set it keeps its value under
\* every token (a destination, '{', '}' at another depth) but a '}' met
\* while the depth equals it, which clears it and then lowers the depth.
C17_SkipMarker ==
    [][(pc = "rtf_loop" /\ i < Len(data)) =>
            /\ (skipUntilDepth < 0 /\ skipUntilDepth' >= 0) =>
                    /\ AtDestination
                    /\ skipUntilDepth' = depth
                    /\ depth' = depth
            /\ (skipUntilDepth >= 0 /\ skipUntilDepth' # skipUntilDepth) =>
                    /\ TokenKind(data, i) = "close"
                    /\ depth = skipUntilDepth
                    /\ skipUntilDepth' = -1
                    /\ depth' = IF depth > 0 THEN depth - 1 ELSE 0
            /\ (skipUntilDepth >= 0 /\ TokenKind(data, i) = "close" /\ depth = skipUntilDepth) =>
                    skipUntilDepth' = -1
            /\ (skipUntilDepth >= 0 /\ TokenKind(data, i) = "open") =>
                    (skipUntilDepth' = skipUntilDepth /\ depth' = depth + 1)
      ]_vars

\* C17 witness: in {\fonttbl{\* the second destination was met, two groups
\* deep, and the marker still holds the depth of the first.
C17_Witness ==
    /\ pc = "rtf_loop"
    /\ data = <<123, 92, 102, 111, 110, 116, 116, 98, 108, 123, 92, 42>>
    /\ i = Len(data)
    /\ depth = 2
    /\ skipUntilDepth = 1

HasLineBreak(s) == \E k \in 1..Len(s) : s[k] \in {10, 13}

\* The cursor is at a hex escape that names a line feed or a carriage return.
AtHexLineBreak ==
    /\ TokenKind(data, i) = "symbol"
    /\ data[i + 2] = 39
    /\ i + 3 < Len(data)
    /\ 16 * HexVal(data[i + 3]) + HexVal(data[i + 4]) \in {10, 13}

StepReads(bs, st) ==
    LET n == Len(bs)
        kind == TokenKind(bs, st.i)
        k == st.i + 2
        start == st.i + 1
        wEnd == LettersEnd(bs, start)
        hasNum == wEnd < n /\ (bs[wEnd + 1] = 45 \/ IsDigit(bs[wEnd + 1]))
        numStart == IF hasNum /\ bs[wEnd + 1] = 45 THEN wEnd + 1 ELSE wEnd
        numEnd == IF hasNum THEN DigitsEnd(bs, numStart) ELSE wEnd
        after == StepWord(bs, st).i
    IN  IF kind \in {"open", "close", "raw", "backslash_end"} THEN {st.i + 1}
        ELSE IF kind = "symbol"
             THEN {st.i + 1, st.i + 2}
                  \cup (IF bs[st.i + 2] = 39 /\ k + 1 < n THEN {k + 1, k + 2} ELSE {})
        ELSE {st.i + 1}
             \cup ((start + 1)..wEnd) \cup (IF wEnd < n THEN {wEnd + 1} ELSE {})
             \cup (IF hasNum
                   THEN ((numStart + 1)..numEnd) \cup (IF numEnd < n THEN {numEnd + 1} ELSE {})
                   ELSE {})
             \cup (IF after < n THEN {after + 1} ELSE {after})

MaxLiveToks == 3   \* most vocabulary items of an input whose call is followed to its return

\* One call of extractRTF under a scheduler that lets its goroutine run the
\* loop.
InitRTFLive ==
    /\ pc = "rtf_loop"
    /\ filename = <<"x", ".", "r", "t", "f">>
    /\ data \in {Flatten(ts) : ts \in Seqs(RtfVocab, MaxLiveToks)} \cup RtfFixtures
    /\ ret = NoRet
    /\ ran = <<"rtf">>
    /\ PdfIdle /\ TxtIdle /\ RtfIdle /\ BatchIdle /\ DocxIdle

\* One iteration of the tokenizer loop, whatever the token at the cursor.
RtfIteration == RtfOpen \/ RtfClose \/ RtfBackslashEnd \/ RtfSymbol \/ RtfWord \/ RtfRaw

SpecRTFLive == InitRTFLive /\ [][NextRTF]_vars /\ WF_vars(RtfIteration)

\* C21: the tokenizer loop of extractRTF ends on every input: the cursor
\* stays within the input, every iteration of the loop moves it forward and
\* reads no byte past the end of the input, and the cursor reaches the end
\* of the input, where the loop is left.
C21_Terminates ==
    /\ [](i <= Len(data))
    /\ []((pc = "rtf_loop" /\ i < Len(data)) => StepReads(data, RtfState) \subseteq 1..Len(data))
    /\ [][pc = "rtf_loop" => (i' > i \/ pc' = "done")]_vars
    /\ <>(i >= Len(data))

\* The call has returned on an input that ends inside a hex escape.
C21_Witness ==
    /\ pc = "done"
    /\ data = Rtf_TruncHex
    /\ i = Len(data)
    /\ b = <<65, 52>>

\* The state after n closing braces in a row.
RECURSIVE AfterCloses(_, _)
AfterCloses(st, n) == IF n = 0 THEN st ELSE AfterCloses(StepClose(<<>>, st), n - 1)

\* C22: in every state of the tokenizer loop the depth is not negative and a
\* set skip marker lies between 0 and the depth, so that the closing braces
\* that bring the depth down to the marker, and one more, clear it; a '}'
\* met at depth 0 leaves the depth at 0.
C22_DepthAndMarker ==
    pc = "rtf_loop" =>
        /\ depth >= 0
        /\ skipUntilDepth >= -1
        /\ skipUntilDepth >= 0 =>
              /\ skipUntilDepth <= depth
              /\ AfterCloses(RtfState, depth - skipUntilDepth + 1).skip = -1
        /\ (i < Len(data) /\ TokenKind(data, i) = "close" /\ depth = 0) =>
              StepClose(data, RtfState).depth = 0

\* After an unmatched '}' a destination was met outside every group: the
\* marker is set at depth 0, and another '}' follows.
C22_Witness ==
    /\ pc = "rtf_loop"
    /\ data = <<125, 92, 42, 125>>
    /\ i = 3
    /\ depth = 0
    /\ skipUntilDepth = 0

(***************************************************************************)
(* The post-pass normalization of extractRTF on its own: a text is         *)
(* normalized, and the result is normalized again.                         *)
(***************************************************************************)
MaxNormLen == 5   \* longest text that is normalized

\* TAB, LF, FF, CR, a space, a full stop, 'A'
NormBytes == {9, 10, 12, 13, 32, 46, 65}

NormInputs == Seqs(NormBytes, MaxNormLen)

\* out := b.String() and the four replacements.
NormApply ==
    /\ pc = "norm"
    /\ b' = RtfNormalize(data)
    /\ pc' = "norm_again"
    /\ UNCHANGED <<callVars, batchVars, pdfVars, path, rtfVars, docxVars>>

\* The four replacements, applied to their own output.
NormApplyAgain ==
    /\ pc = "norm_again"
    /\ ret' = [text |-> RtfNormalize(b), err |-> Nil]
    /\ pc' = "done"
    /\ UNCHANGED <<filename, data, ran, batchVars, pdfVars, path, rtfVars, b, docxVars>>

InitNORM ==
    /\ pc = "norm"
    /\ filename = <<"x", ".", "r", "t", "f">>
    /\ data \in NormInputs
    /\ ret = NoRet
    /\ ran = <<"rtf">>
    /\ PdfIdle /\ TxtIdle /\ RtfIdle /\ BatchIdle /\ DocxIdle

NextNORM == NormApply \/ NormApplyAgain

SpecNORM == InitNORM /\ [][NextNORM]_vars

\* C14: the post-pass normalization is idempotent: applied to its own
\* output it returns that output.
C14_NormalizeIdempotent ==
    /\ pc = "done" => ret = [text |-> b, err |-> Nil]
    /\ RtfNormalize(RtfNormalize(data)) = RtfNormalize(data)

\* C14 witness: "A", a space, a tab, a carriage return and a full stop
\* became "A." under the line-ending, blank-run and punctuation passes, and
\* stayed "A." the second time.
C14_Witness ==
    /\ pc = "done"
    /\ data = <<65, 32, 9, 13, 46>>
    /\ b = <<65, 46>>
    /\ ret.text = <<65, 46>>

(***************************************************************************)
(* extractDOCX.  The archive and the XML decoder are library code: the     *)
(* input is what they make of the bytes, doc = [archive, toks, tail], the  *)
(* outcome of opening the archive, the tokens of word/document.xml and     *)
(* what follows the last token (the end of the input, or markup the        *)
(* decoder cannot parse).                                                  *)
(***************************************************************************)
SyntaxError(m) == [kind |-> "xml.SyntaxError", msg |-> m, code |-> 0, ext |-> <<>>]
ZipError(m) == [kind |-> "zip", msg |-> m, code |-> 0, ext |-> <<>>]
ErrNoDocument ==
    [kind |-> "errors.New", msg |-> "document.xml not found in docx", code |-> 0, ext |-> <<>>]

StartElement(space, local) == [kind |-> "start", space |-> space, local |-> local, text |-> <<>>]
EndElement(space, local) == [kind |-> "end", space |-> space, local |-> local, text |-> <<>>]
CharData(text) == [kind |-> "chardata", space |-> "", local |-> "", text |-> text]
Comment == [kind |-> "comment", space |-> "", local |-> "", text |-> <<>>]
NoToken == [kind |-> "none", space |-> "", local |-> "", text |-> <<>>]

ElemName(t) == [space |-> t.space, local |-> t.local]

\* dec.Token() of a strict xml.Decoder that has delivered pos tokens and
\* holds the open elements dstk: the next token, io.EOF, or a syntax error
\* (an end tag that closes nothing or the wrong element, input that ends
\* inside an element, markup it cannot parse).
DecToken(d, pos, dstk) ==
    IF pos >= Len(d.toks)
    THEN IF d.tail = "syntax"
         THEN [res |-> "err", tok |-> NoToken, stk |-> dstk, err |-> SyntaxError("invalid markup")]
         ELSE IF dstk # <<>>
         THEN [res |-> "err", tok |-> NoToken, stk |-> dstk, err |-> SyntaxError("unexpected EOF")]
         ELSE [res |-> "eof", tok |-> NoToken, stk |-> dstk, err |-> Nil]
    ELSE LET t == d.toks[pos + 1]
         IN  IF t.kind = "start"
             THEN [res |-> "tok", tok |-> t, stk |-> Append(dstk, ElemName(t)), err |-> Nil]
             ELSE IF t.kind = "end"
             THEN IF dstk = <<>>
                  THEN [res |-> "err", tok |-> NoToken, stk |-> dstk,
                        err |-> SyntaxError("unexpected end element")]
                  ELSE IF dstk[Len(dstk)] # ElemName(t)
                  THEN [res |-> "err", tok |-> NoToken, stk |-> dstk,
                        err |-> SyntaxError("element closed by another")]
                  ELSE [res |-> "tok", tok |-> t, stk |-> SubSeq(dstk, 1, Len(dstk) - 1),
                        err |-> Nil]
             ELSE [res |-> "tok", tok |-> t, stk |-> dstk, err |-> Nil]

NextTok == DecToken(doc, decPos, decStk)

\* A variant that hands back the text accumulated so far with the error.
DocxFail_Partial(built, e) == [text |-> built, err |-> e]

\* return "", err
DocxFail(built, e) == [text |-> <<>>, err |-> e]

\* zip.NewReader fails, word/document.xml is missing, or docFile.Open() fails.
DocxArchiveFail ==
    /\ pc = "docx_open"
    /\ doc.archive # "ok"
    /\ ret' = DocxFail(b, IF doc.archive = "notzip" THEN ZipError("zip: not a valid zip file")
                           ELSE IF doc.archive = "nodoc" THEN ErrNoDocument
                           ELSE ZipError("zip: unsupported compression algorithm"))
    /\ pc' = "done"
    /\ UNCHANGED <<filename, data, ran, batchVars, pdfVars, path, rtfVars, b, docxVars>>

\* The archive opens: xml.NewDecoder(rc).
DocxOpen ==
    /\ pc = "docx_open"
    /\ doc.archive = "ok"
    /\ pc' = "docx_loop"
    /\ UNCHANGED <<callVars, batchVars, pdfVars, path, rtfVars, b, docxVars>>

\* The outer loop: dec.Token() returns io.EOF.
DocxEOF ==
    /\ pc = "docx_loop"
    /\ NextTok.res = "eof"
    /\ ret' = [text |-> b, err |-> Nil]
    /\ pc' = "done"
    /\ UNCHANGED <<filename, data, ran, batchVars, pdfVars, path, rtfVars, b, docxVars>>

\* The outer loop: dec.Token() returns an error.
DocxErr ==
    /\ pc = "docx_loop"
    /\ NextTok.res = "err"
    /\ ret' = DocxFail(b, NextTok.err)
    /\ pc' = "done"
    /\ UNCHANGED <<filename, data, ran, batchVars, pdfVars, path, rtfVars, b, docxVars>>

\* The outer loop: a start tag.
DocxStart ==
    /\ pc = "docx_loop"
    /\ NextTok.res = "tok"
    /\ NextTok.tok.kind = "start"
    /\ decPos' = decPos + 1
    /\ decStk' = NextTok.stk
    /\ stack' = Append(stack, ElemName(NextTok.tok))
    /\ b' = IF NextTok.tok.local = "br" THEN Append(b, 10)
            ELSE IF NextTok.tok.local = "tab" THEN Append(b, 9)
            ELSE b
    /\ txt' = <<>>
    /\ pc' = IF NextTok.tok.local = "t" THEN "docx_t" ELSE "docx_loop"
    /\ UNCHANGED <<callVars, batchVars, pdfVars, path, rtfVars, doc>>

\* The outer loop: an end tag.
DocxEnd ==
    /\ pc = "docx_loop"
    /\ NextTok.res = "tok"
    /\ NextTok.tok.kind = "end"
    /\ decPos' = decPos + 1
    /\ decStk' = NextTok.stk
    /\ stack' = IF Len(stack) > 0 THEN SubSeq(stack, 1, Len(stack) - 1) ELSE stack
    /\ b' = IF NextTok.tok.local = "p" THEN Append(b, 10) ELSE b
    /\ UNCHANGED <<pc, callVars, batchVars, pdfVars, path, rtfVars, doc, txt>>

\* The outer loop: character data, a comment: no case of the type switch.
DocxOther ==
    /\ pc = "docx_loop"
    /\ NextTok.res = "tok"
    /\ NextTok.tok.kind \notin {"start", "end"}
    /\ decPos' = decPos + 1
    /\ decStk' = NextTok.stk
    /\ UNCHANGED <<pc, callVars, batchVars, pdfVars, path, rtfVars, b, doc, stack, txt>>

\* Inside a 't' run: character data is added to txt.
DocxTChar ==
    /\ pc = "docx_t"
    /\ NextTok.res = "tok"
    /\ NextTok.tok.kind = "chardata"
    /\ txt' = txt \o NextTok.tok.text
    /\ decPos' = decPos + 1
    /\ decStk' = NextTok.stk
    /\ UNCHANGED <<pc, callVars, batchVars, pdfVars, path, rtfVars, b, doc, stack>>

\* The token ends the 't' run: io.EOF, or an end tag named t.
EndsRun(r) == IF r.res = "eof" THEN TRUE ELSE r.res = "tok" /\ r.tok.kind = "end" /\ r.tok.local = "t"

\* Inside a 't' run: the run ends, txt goes to the output.
DocxTEnd ==
    /\ pc = "docx_t"
    /\ EndsRun(NextTok)
    /\ b' = b \o txt
    /\ decPos' = IF NextTok.res = "tok" THEN decPos + 1 ELSE decPos
    /\ decStk' = NextTok.stk
    /\ pc' = "docx_loop"
    /\ UNCHANGED <<callVars, batchVars, pdfVars, path, rtfVars, doc, stack, txt>>

\* Inside a 't' run: any other token is passed over.
DocxTSkip ==
    /\ pc = "docx_t"
    /\ NextTok.res = "tok"
    /\ NextTok.tok.kind # "chardata"
    /\ ~EndsRun(NextTok)
    /\ decPos' = decPos + 1
    /\ decStk' = NextTok.stk
    /\ UNCHANGED <<pc, callVars, batchVars, pdfVars, path, rtfVars, b, doc, stack, txt>>

\* Inside a 't' run: dec.Token() returns an error.
DocxTErr ==
    /\ pc = "docx_t"
    /\ NextTok.res = "err"
    /\ ret' = DocxFail(b, NextTok.err)
    /\ pc' = "done"
    /\ UNCHANGED <<filename, data, ran, batchVars, pdfVars, path, rtfVars, b, docxVars>>

(***************************************************************************)
(* The specification of extractDOCX: one call, one dec.Token() per step.   *)
(***************************************************************************)
MaxDocToks == 4   \* most tokens of a generated document

DocNames == {"p", "r", "t", "br", "tab"}

DocVocab ==
    {StartElement("w", n) : n \in DocNames} \cup {EndElement("w", n) : n \in DocNames}
        \cup {CharData(<<65>>), Comment}

\* The decoder once it has delivered all of toks: whether it failed on one
\* of them, and the elements left open.
RECURSIVE OpenAfter(_, _, _)
OpenAfter(toks, k, stk) ==
    IF k > Len(toks) THEN [ok |-> TRUE, stk |-> stk]
    ELSE LET r == DecToken([toks |-> toks, tail |-> "eof"], k - 1, stk)
         IN  IF r.res = "tok" THEN OpenAfter(toks, k + 1, r.stk)
             ELSE [ok |-> FALSE, stk |-> stk]

Accepted(toks) == OpenAfter(toks, 1, <<>>).ok

\* The token sequences of at most n tokens the decoder accepts up to their
\* last token (a failure ends the call, whatever follows it).
RECURSIVE Streams(_)
Streams(n) ==
    IF n = 0 THEN {<<>>}
    ELSE LET shorter == Streams(n - 1)
         IN  shorter \cup {Append(s, t) : s \in {x \in shorter : Len(x) = n - 1 /\ Accepted(x)},
                                          t \in DocVocab}

P_open == StartElement("w", "p")
P_close == EndElement("w", "p")
R_open == StartElement("w", "r")
R_close == EndElement("w", "r")
T_open == StartElement("w", "t")
T_close == EndElement("w", "t")

\* <w:p><w:r><w:t>A</w:t></w:r></w:p><w:p><w:r><w:t>B</w:t></w:r></w:p>
Doc_TwoParagraphs ==
    << P_open, R_open, T_open, CharData(<<65>>), T_close, R_close, P_close,
       P_open, R_open, T_open, CharData(<<66>>), T_close, R_close, P_close >>

\* <w:p><w:t>A<w:t>B</w:t>C</w:t></w:p>
Doc_NestedRun ==
    << P_open, T_open, CharData(<<65>>), T_open, CharData(<<66>>), T_close,
       CharData(<<67>>), T_close, P_close >>

DocFixtures == {Doc_TwoParagraphs, Doc_NestedRun}

DocInputs ==
    {[archive |-> a, toks |-> <<>>, tail |-> "eof"] : a \in {"notzip", "nodoc", "openerr"}}
        \cup {[archive |-> "ok", toks |-> s, tail |-> e] :
                    s \in Streams(MaxDocToks) \cup DocFixtures, e \in {"eof", "syntax"}}

InitDOCX ==
    /\ pc = "docx_open"
    /\ filename = <<"x", ".", "d", "o", "c", "x">>
    /\ data = <<80, 75>>
    /\ ret = NoRet
    /\ ran = <<"docx">>
    /\ PdfIdle /\ TxtIdle /\ RtfIdle /\ BatchIdle
    /\ doc \in DocInputs
    /\ decPos = 0
    /\ decStk = <<>>
    /\ stack = <<>>
    /\ txt = <<>>

NextDOCX ==
    \/ DocxArchiveFail \/ DocxOpen
    \/ DocxEOF \/ DocxErr \/ DocxStart \/ DocxEnd \/ DocxOther
    \/ DocxTChar \/ DocxTEnd \/ DocxTSkip \/ DocxTErr

SpecDOCX == InitDOCX /\ [][NextDOCX]_vars

(***************************************************************************)
(* Properties of extractDOCX.                                              *)
(***************************************************************************)

\* The token stream is well formed: every end tag closes the element opened
\* last, and the input ends with no element open.
WellFormed(d) == d.tail = "eof" /\ OpenAfter(d.toks, 1, <<>>) = [ok |-> TRUE, stk |-> <<>>]

\* The text of a document as C8 words it: the character data inside 't'
\* elements, a line feed per br start tag, a tab per tab start tag and a
\* line feed per p end tag, in document order; open counts the 't'
\* elements that are open.
RECURSIVE DocText(_, _, _)
DocText(toks, k, open) ==
    IF k > Len(toks) THEN <<>>
    ELSE LET t == toks[k]
         IN  IF t.kind = "start" /\ t.local = "t" THEN DocText(toks, k + 1, open + 1)
             ELSE IF t.kind = "end" /\ t.local = "t" THEN DocText(toks, k + 1, open - 1)
             ELSE IF t.kind = "start" /\ t.local = "br" THEN <<10>> \o DocText(toks, k + 1, open)
             ELSE IF t.kind = "start" /\ t.local = "tab" THEN <<9>> \o DocText(toks, k + 1, open)
             ELSE IF t.kind = "end" /\ t.local = "p" THEN <<10>> \o DocText(toks, k + 1, open)
             ELSE IF t.kind = "chardata" /\ open > 0 THEN t.text \o DocText(toks, k + 1, open)
             ELSE DocText(toks, k + 1, open)

\* C8: for a well-formed document extractDOCX returns the character data of
\* each 't' run up to its matching end tag, one line feed per br start tag,
\* one tab per tab start tag and one line feed per p end tag, in document
\* order, and nothing else.
C8_TextOfDocument ==
    (pc = "done" /\ doc.archive = "ok" /\ WellFormed(doc)) =>
        ret = [text |-> DocText(doc.toks, 1, 0), err |-> Nil]

\* C9: when the token stream is malformed or ends inside an element,
\* extractDOCX returns the decoder's error and an empty text, whatever it
\* had accumulated.
C9_MalformedDiscarded ==
    (pc = "done" /\ doc.archive = "ok" /\ ~WellFormed(doc)) =>
        /\ ret.text = <<>>
        /\ ret.err.kind = "xml.SyntaxError"

\* C9 witness: the stream failed inside a 't' run after text had been
\* accumulated both in the output and in the run, and nothing was returned.
C9_Witness ==
    /\ pc = "done"
    /\ b # <<>>
    /\ txt # <<>>
    /\ decStk # <<>>
    /\ ret.text = <<>>
    /\ ret.err.kind = "xml.SyntaxError"

\* C19: whenever the outer loop asks for a token, the stack holds the names
\* of the elements that are open, outermost first, and is empty when a
\* well-formed document ends.
C19_StackIsOpenElements ==
    /\ pc = "docx_loop" => stack = decStk
    /\ (pc = "done" /\ doc.archive = "ok" /\ WellFormed(doc)) => stack = <<>>

(***************************************************************************)
(* extractPDF: the caller's side.                                          *)
(***************************************************************************)
PipeErrors == {OsError("pipe: too many open files")}
SpawnErrors == {OsError("exec: \"pdftotext\": executable file not found in $PATH"),
                OsError("fork/exec: resource temporarily unavailable")}
WriteErrors == {OsError("write |1: broken pipe")}
ReadErrors == {OsError("read |0: input/output error")}
ExitStatuses == {0, 1, 127}
OutBytes == {13, 65}

ToolReadEndOpen == toolPc \in {"run", "rd", "wr"}
ToolHasExited == toolPc \in {"exited", "killed"}

\* cmd.StdinPipe() or cmd.StdoutPipe() fails.
PdfPipeFail ==
    /\ pc = "pdf_start"
    /\ \E e \in PipeErrors :
        /\ osErr' = e
        /\ ret' = [text |-> <<>>, err |-> e]
    /\ pc' = "done"
    /\ UNCHANGED <<batchVars, nonPdfVars, filename, data, ran, written, stdinPipe, stdinClosed, stdoutPipe,
                   out, toolPc, toolPending, toolEmitted, exitStatus, waited>>

\* cmd.Start() fails.
PdfStartFail ==
    /\ pc = "pdf_start"
    /\ \E e \in SpawnErrors :
        /\ osErr' = e
        /\ ret' = [text |-> <<>>, err |-> e]
    /\ pc' = "done"
    /\ UNCHANGED <<batchVars, nonPdfVars, filename, data, ran, written, stdinPipe, stdinClosed, stdoutPipe,
                   out, toolPc, toolPending, toolEmitted, exitStatus, waited>>

\* cmd.Start() succeeds: the subprocess runs.
PdfStart ==
    /\ pc = "pdf_start"
    /\ toolPc' = "run"
    /\ pc' = "pdf_write"
    /\ UNCHANGED <<batchVars, nonPdfVars, callVars, written, stdinPipe, stdinClosed, stdoutPipe, out,
                   toolPending, toolEmitted, exitStatus, waited, osErr>>

\* stdin.Write(data) moves the next byte into the pipe; it blocks while the
\* pipe is full.
PdfWrite ==
    /\ pc = "pdf_write"
    /\ written < Len(data)
    /\ ToolReadEndOpen
    /\ Len(stdinPipe) < PipeCap
    /\ stdinPipe' = Append(stdinPipe, data[written + 1])
    /\ written' = written + 1
    /\ UNCHANGED <<batchVars, nonPdfVars, pc, callVars, stdinClosed, stdoutPipe, out, toolPc, toolPending,
                   toolEmitted, exitStatus, waited, osErr>>

\* stdin.Write(data) fails: the subprocess has closed the read end.
PdfWriteFail ==
    /\ pc = "pdf_write"
    /\ written < Len(data)
    /\ ~ToolReadEndOpen
    /\ \E e \in WriteErrors :
        /\ osErr' = e
        /\ ret' = [text |-> <<>>, err |-> e]
    /\ stdinClosed' = TRUE
    /\ toolPc' = IF toolPc = "exited" THEN "exited" ELSE "killed"
    /\ pc' = "done"
    /\ UNCHANGED <<batchVars, nonPdfVars, filename, data, ran, written, stdinPipe, stdoutPipe, out,
                   toolPending, toolEmitted, exitStatus, waited>>

\* stdin.Write(data) has written everything; stdin.Close().
PdfWriteDone ==
    /\ pc = "pdf_write"
    /\ written = Len(data)
    /\ stdinClosed' = TRUE
    /\ pc' = "pdf_read"
    /\ UNCHANGED <<batchVars, nonPdfVars, callVars, written, stdinPipe, stdoutPipe, out, toolPc, toolPending,
                   toolEmitted, exitStatus, waited, osErr>>

\* io.ReadAll(stdout) takes what the pipe holds.
PdfRead ==
    /\ pc = "pdf_read"
    /\ stdoutPipe # <<>>
    /\ out' = out \o stdoutPipe
    /\ stdoutPipe' = <<>>
    /\ UNCHANGED <<batchVars, nonPdfVars, pc, callVars, written, stdinPipe, stdinClosed, toolPc, toolPending,
                   toolEmitted, exitStatus, waited, osErr>>

\* io.ReadAll(stdout) meets the end of the stream: the subprocess has exited.
PdfReadEOF ==
    /\ pc = "pdf_read"
    /\ stdoutPipe = <<>>
    /\ ToolHasExited
    /\ pc' = "pdf_wait"
    /\ UNCHANGED <<batchVars, nonPdfVars, callVars, pdfVars>>

\* io.ReadAll(stdout) fails.
PdfReadFail ==
    /\ pc = "pdf_read"
    /\ \E e \in ReadErrors : osErr' = e
    /\ pc' = "pdf_wait_readerr"
    /\ UNCHANGED <<batchVars, nonPdfVars, callVars, written, stdinPipe, stdinClosed, stdoutPipe, out, toolPc,
                   toolPending, toolEmitted, exitStatus, waited>>

\* cmd.Wait() after a failed read; the read's error is returned.
PdfWaitReadErr ==
    /\ pc = "pdf_wait_readerr"
    /\ ToolHasExited
    /\ waited' = TRUE
    /\ ret' = [text |-> <<>>, err |-> osErr]
    /\ pc' = "done"
    /\ UNCHANGED <<batchVars, nonPdfVars, filename, data, ran, written, stdinPipe, stdinClosed, stdoutPipe,
                   out, toolPc, toolPending, toolEmitted, exitStatus, osErr>>

\* A variant that hands back the captured output together with the error.
PdfResult_KeepOutput(status, collected) ==
    IF status # 0 THEN [text |-> collected, err |-> ExitError(status)]
    ELSE [text |-> collected, err |-> Nil]

\* What extractPDF returns once cmd.Wait() has the exit status.
PdfResult(status, collected) ==
    IF status # 0 THEN [text |-> <<>>, err |-> ExitError(status)]
    ELSE [text |-> collected, err |-> Nil]

\* cmd.Wait() and the final return.
PdfWait ==
    /\ pc = "pdf_wait"
    /\ ToolHasExited
    /\ waited' = TRUE
    /\ ret' = PdfResult(exitStatus, out)
    /\ pc' = "done"
    /\ UNCHANGED <<batchVars, nonPdfVars, filename, data, ran, written, stdinPipe, stdinClosed, stdoutPipe,
                   out, toolPc, toolPending, toolEmitted, exitStatus, osErr>>

(***************************************************************************)
(* The pdftotext subprocess: any program that reads its standard input,    *)
(* writes its standard output and exits.                                   *)
(***************************************************************************)
ToolBeginRead ==
    /\ toolPc = "run"
    /\ toolPc' = "rd"
    /\ UNCHANGED <<batchVars, nonPdfVars, pc, callVars, written, stdinPipe, stdinClosed, stdoutPipe, out,
                   toolPending, toolEmitted, exitStatus, waited, osErr>>

\* read(0) returns a byte, or the end of the stream once stdin is closed and
\* drained; it blocks on an empty pipe that is still open.
ToolRead ==
    /\ toolPc = "rd"
    /\ \/ /\ stdinPipe # <<>>
          /\ stdinPipe' = Tail(stdinPipe)
       \/ /\ stdinPipe = <<>>
          /\ stdinClosed
          /\ UNCHANGED stdinPipe
    /\ toolPc' = "run"
    /\ UNCHANGED <<batchVars, nonPdfVars, pc, callVars, written, stdinClosed, stdoutPipe, out, toolPending,
                   toolEmitted, exitStatus, waited, osErr>>

ToolBeginWrite ==
    /\ toolPc = "run"
    /\ Len(toolEmitted) < MaxOut
    /\ \E x \in OutBytes : toolPending' = x
    /\ toolPc' = "wr"
    /\ UNCHANGED <<batchVars, nonPdfVars, pc, callVars, written, stdinPipe, stdinClosed, stdoutPipe, out,
                   toolEmitted, exitStatus, waited, osErr>>

\* write(1) blocks while the stdout pipe is full.
ToolWrite ==
    /\ toolPc = "wr"
    /\ Len(stdoutPipe) < PipeCap
    /\ stdoutPipe' = Append(stdoutPipe, toolPending)
    /\ toolEmitted' = Append(toolEmitted, toolPending)
    /\ toolPending' = 0
    /\ toolPc' = "run"
    /\ UNCHANGED <<batchVars, nonPdfVars, pc, callVars, written, stdinPipe, stdinClosed, out, exitStatus,
                   waited, osErr>>

ToolExit ==
    /\ toolPc = "run"
    /\ \E s \in ExitStatuses : exitStatus' = s
    /\ toolPc' = "exited"
    /\ UNCHANGED <<batchVars, nonPdfVars, pc, callVars, written, stdinPipe, stdinClosed, stdoutPipe, out,
                   toolPending, toolEmitted, waited, osErr>>

PdfInputs == {SubSeq(PdfMagic, 1, n) : n \in 0..MaxIn}

InitPDF ==
    /\ pc = "pdf_start"
    /\ filename = <<"x", ".", "p", "d", "f">>
    /\ data \in PdfInputs
    /\ ret = NoRet
    /\ ran = <<"pdf">>
    /\ PdfIdle
    /\ TxtIdle /\ RtfIdle /\ BatchIdle /\ DocxIdle

NextPDF ==
    \/ PdfPipeFail \/ PdfStartFail \/ PdfStart
    \/ PdfWrite \/ PdfWriteFail \/ PdfWriteDone
    \/ PdfRead \/ PdfReadEOF \/ PdfReadFail \/ PdfWaitReadErr \/ PdfWait
    \/ ToolBeginRead \/ ToolRead \/ ToolBeginWrite \/ ToolWrite \/ ToolExit

SpecPDF == InitPDF /\ [][NextPDF]_vars

(***************************************************************************)
(* ExtractText: the choice of an extractor.  A filename is a sequence of   *)
(* characters; data holds the leading bytes of the file.                   *)
(***************************************************************************)
UpperCase == <<"A", "B", "C", "D", "E", "F", "G", "H", "I", "J", "K", "L", "M",
               "N", "O", "P", "Q", "R", "S", "T", "U", "V", "W", "X", "Y", "Z">>
LowerCase == <<"a", "b", "c", "d", "e", "f", "g", "h", "i", "j", "k", "l", "m",
               "n", "o", "p", "q", "r", "s", "t", "u", "v", "w", "x", "y", "z">>

\* A variant that leaves the case of the letters alone.
ToLower_AsIs(s) == s

\* strings.ToLower
ToLower(s) ==
    [k \in 1..Len(s) |->
        IF \E n \in 1..Len(UpperCase) : UpperCase[n] = s[k]
        THEN LowerCase[CHOOSE n \in 1..Len(UpperCase) : UpperCase[n] = s[k]]
        ELSE s[k]]

\* filepath.Ext: the suffix that begins at the last dot of the last path
\* element, empty when that element has no dot.
RECURSIVE ExtFrom(_, _)
ExtFrom(name, k) ==
    IF k < 1 THEN <<>>
    ELSE IF name[k] = "/" THEN <<>>
    ELSE IF name[k] = "." THEN SubSeq(name, k, Len(name))
    ELSE ExtFrom(name, k - 1)

Ext(name) == ExtFrom(name, Len(name))

Sig_PDF == PdfMagic                         \* %PDF
Sig_ZIP == <<80, 75>>                       \* PK
Sig_RTF == <<123, 92, 114, 116, 102>>       \* {\rtf

\* A variant of the default branch that does not know the RTF signature.
Sniff_NoRtf(bs) ==
    IF HasPrefix(bs, Sig_PDF) THEN "pdf"
    ELSE IF HasPrefix(bs, Sig_ZIP) THEN "docx"
    ELSE "none"

\* The default branch of the switch: the leading bytes choose.
Sniff(bs) ==
    IF HasPrefix(bs, Sig_PDF) THEN "pdf"
    ELSE IF HasPrefix(bs, Sig_ZIP) THEN "docx"
    ELSE IF HasPrefix(bs, Sig_RTF) THEN "rtf"
    ELSE "none"

\* A variant that looks at the leading bytes before the extension.
Route_SniffFirst(ext, bs) ==
    IF Sniff(bs) # "none" THEN Sniff(bs)
    ELSE IF ext = <<".", "p", "d", "f">> THEN "pdf"
    ELSE IF ext = <<".", "d", "o", "c", "x">> THEN "docx"
    ELSE IF ext = <<".", "r", "t", "f">> THEN "rtf"
    ELSE IF ext = <<".", "t", "x", "t">> \/ ext = <<>> THEN "txt"
    ELSE "none"

\* switch ext
Route(ext, bs) ==
    IF ext = <<".", "p", "d", "f">> THEN "pdf"
    ELSE IF ext = <<".", "d", "o", "c", "x">> THEN "docx"
    ELSE IF ext = <<".", "r", "t", "f">> THEN "rtf"
    ELSE IF ext = <<".", "t", "x", "t">> \/ ext = <<>> THEN "txt"
    ELSE Sniff(bs)

\* errors.New("unsupported file type: " + ext)
ErrUnsupported(ext) ==
    [kind |-> "errors.New", msg |-> "unsupported file type: ", code |-> 0, ext |-> ext]

\* ext := strings.ToLower(filepath.Ext(filename)), and the branch taken.
Chosen == Route(ToLower(Ext(filename)), data)

\* Documents the DOCX walker may find in the file.  archive/zip locates the
\* directory of an archive from the end of the file, so the leading bytes
\* do not tell what it finds; an empty file is no archive.
DispatchDocs ==
    {[archive |-> "notzip", toks |-> <<>>, tail |-> "eof"],
     [archive |-> "nodoc", toks |-> <<>>, tail |-> "eof"],
     [archive |-> "ok", toks |-> Doc_TwoParagraphs, tail |-> "eof"],
     [archive |-> "ok", toks |-> Doc_NestedRun, tail |-> "eof"],
     [archive |-> "ok", toks |-> <<P_open>>, tail |-> "eof"],
     [archive |-> "ok", toks |-> <<T_open, CharData(<<65>>)>>, tail |-> "syntax"]}

ArchiveOf(bs) == IF bs = <<>> THEN {d \in DispatchDocs : d.archive = "notzip"} ELSE DispatchDocs

\* return extractPDF(data)
ExtractTextPDF ==
    /\ pc = "dispatch"
    /\ Chosen = "pdf"
    /\ ran' = Append(ran, "pdf")
    /\ pc' = "pdf_start"
    /\ UNCHANGED <<filename, data, ret, batchVars, pdfVars, path, rtfVars, b, docxVars>>

\* return extractDOCX(data)
ExtractTextDOCX ==
    /\ pc = "dispatch"
    /\ Chosen = "docx"
    /\ ran' = Append(ran, "docx")
    /\ doc' \in ArchiveOf(data)
    /\ pc' = "docx_open"
    /\ UNCHANGED <<filename, data, ret, batchVars, pdfVars, path, rtfVars, b, decPos, decStk, stack, txt>>

\* return extractRTF(data)
ExtractTextRTF ==
    /\ pc = "dispatch"
    /\ Chosen = "rtf"
    /\ ran' = Append(ran, "rtf")
    /\ pc' = "rtf_loop"
    /\ UNCHANGED <<filename, data, ret, batchVars, pdfVars, path, rtfVars, b, docxVars>>

\* return extractTXT(data)
ExtractTextTXT ==
    /\ pc = "dispatch"
    /\ Chosen = "txt"
    /\ ran' = Append(ran, "txt")
    /\ pc' = "txt"
    /\ UNCHANGED <<filename, data, ret, batchVars, pdfVars, path, rtfVars, b, docxVars>>

\* return "", errors.New("unsupported file type: " + ext)
ExtractTextUnsupported ==
    /\ pc = "dispatch"
    /\ Chosen = "none"
    /\ ret' = [text |-> <<>>, err |-> ErrUnsupported(ToLower(Ext(filename)))]
    /\ pc' = "done"
    /\ UNCHANGED <<filename, data, ran, batchVars, pdfVars, path, rtfVars, b, docxVars>>

(***************************************************************************)
(* The specification of ExtractText: one call, the extractor it chooses    *)
(* runs to its return.                                                     *)
(***************************************************************************)
Stems == {<<"x">>, <<>>, <<"x", ".", "p", "d", "f">>, <<"d", ".", "r", "t", "f", "/", "x">>}

Extensions ==
    {<<>>, <<".">>,
     <<".", "p", "d", "f">>, <<".", "P", "D", "F">>, <<".", "P", "d", "f">>,
     <<".", "d", "o", "c", "x">>, <<".", "D", "O", "C", "X">>, <<".", "d", "o", "c", "X">>,
     <<".", "r", "t", "f">>, <<".", "R", "T", "F">>,
     <<".", "t", "x", "t">>, <<".", "T", "X", "T">>, <<".", "T", "x", "t">>,
     <<".", "m", "d">>, <<".", "B", "I", "N">>, <<".", "d", "o", "c">>,
     <<".", "u", "n", "k", "n", "o", "w", "n">>}

Filenames == {s \o e : s \in Stems, e \in Extensions}

\* {\rtf\~T}\ : a group, a control word, a symbol, a raw byte, and a
\* backslash that ends the input
Data_Rtf == Sig_RTF \o <<92, 126, 84, 125, 92>>

DispatchData ==
    {<<>>, Sig_PDF, SubSeq(Sig_PDF, 1, 3), <<32>> \o Sig_PDF, Sig_ZIP, <<80>>,
     Data_Rtf, SubSeq(Sig_RTF, 1, 4), <<72, 105, 13, 10>>}

Init ==
    /\ pc = "dispatch"
    /\ filename \in Filenames
    /\ data \in DispatchData
    /\ ret = NoRet
    /\ ran = <<>>
    /\ PdfIdle /\ TxtIdle /\ RtfIdle /\ BatchIdle /\ DocxIdle

Next ==
    \/ ExtractTextPDF \/ ExtractTextDOCX \/ ExtractTextRTF \/ ExtractTextTXT
    \/ ExtractTextUnsupported
    \/ NextPDF \/ NextDOCX \/ NextRTF \/ NextTXT

Spec == Init /\ [][Next]_vars

(***************************************************************************)
(* Properties of ExtractText.                                              *)
(***************************************************************************)

\* Two characters are the same letter, whatever their case.
SameFold(c, d) ==
    \/ c = d
    \/ \E n \in 1..Len(UpperCase) : {c, d} = {UpperCase[n], LowerCase[n]}

\* The name ends with e, whatever the case of its letters.
EndsWithFold(name, e) ==
    /\ Len(name) >= Len(e)
    /\ \A k \in 1..Len(e) : SameFold(name[Len(name) - Len(e) + k], e[k])

\* The last element of the name has no dot.
HasNoExtension(name) ==
    \A k \in 1..Len(name) : name[k] = "." => \E j \in (k + 1)..Len(name) : name[j] = "/"

\* The extractor the extension of a filename names, "other" for an
\* extension that names none.
DeclaredKind(name) ==
    IF EndsWithFold(name, <<".", "p", "d", "f">>) THEN "pdf"
    ELSE IF EndsWithFold(name, <<".", "d", "o", "c", "x">>) THEN "docx"
    ELSE IF EndsWithFold(name, <<".", "r", "t", "f">>) THEN "rtf"
    ELSE IF EndsWithFold(name, <<".", "t", "x", "t">>) \/ HasNoExtension(name) THEN "txt"
    ELSE "other"

\* The extractor the leading bytes name.
LeadingSignature(bs) ==
    IF Len(bs) >= 4 /\ SubSeq(bs, 1, 4) = <<37, 80, 68, 70>> THEN "pdf"
    ELSE IF Len(bs) >= 2 /\ SubSeq(bs, 1, 2) = <<80, 75>> THEN "docx"
    ELSE IF Len(bs) >= 5 /\ SubSeq(bs, 1, 5) = <<123, 92, 114, 116, 102>> THEN "rtf"
    ELSE "none"

\* What the extractor k has returned, read from where it stopped.
ExtractorReturn(k) ==
    IF k = "pdf"
    THEN IF osErr # Nil THEN [text |-> <<>>, err |-> osErr] ELSE PdfResult(exitStatus, out)
    ELSE IF k = "docx"
    THEN IF doc.archive = "notzip" THEN [text |-> <<>>, err |-> ZipError("zip: not a valid zip file")]
         ELSE IF doc.archive = "nodoc" THEN [text |-> <<>>, err |-> ErrNoDocument]
         ELSE IF NextTok.res = "err" THEN [text |-> <<>>, err |-> NextTok.err]
         ELSE [text |-> b, err |-> Nil]
    ELSE IF k = "rtf" THEN extractRTF(data)
    ELSE extractTXT(data)

\* e is the extension of the name, in lower case.
IsLoweredExtOf(e, name) ==
    /\ Len(e) >= 1
    /\ e[1] = "."
    /\ \A k \in 2..Len(e) :
          /\ e[k] \notin {".", "/"}
          /\ \A n \in 1..Len(UpperCase) : e[k] # UpperCase[n]
    /\ EndsWithFold(name, e)

\* C2: a filename whose extension is .pdf, .docx, .rtf, .txt in any case, or
\* that has no extension, makes ExtractText run the one extractor that
\* extension names, on the data as given, and return what it returns.
C2_DispatchByExtension ==
    LET k == DeclaredKind(filename)
    IN  k # "other" =>
            /\ pc # "dispatch" => ran = <<k>>
            /\ pc = "done" => ret = ExtractorReturn(k)

\* C2 witness: x.DOCX, whose bytes begin like a PDF, went to the DOCX walker
\* and its text came back.
C2_Witness ==
    /\ pc = "done"
    /\ filename = <<"x", ".", "D", "O", "C", "X">>
    /\ data = Sig_PDF
    /\ ran = <<"docx">>
    /\ ret = [text |-> <<65, 10, 66, 10>>, err |-> Nil]

\* C3 as stated: a file with no extension, or with a recognized extension
\* that its leading bytes contradict, goes to the extractor its leading
\* bytes name.
C3_SniffWhenAbsentOrWrong ==
    LET k == DeclaredKind(filename)
        s == LeadingSignature(data)
    IN  (pc # "dispatch" /\ s # "none" /\ k # "other" /\ k # s) => ran = <<s>>

\* C3, amended: the leading bytes are looked at only when the filename has
\* an extension that names no extractor, and then they choose; a file with
\* no extension goes to the charset resolver and one with a recognized
\* extension to the extractor of that extension, whatever its leading bytes.
C3_SniffOnlyWhenUnrecognized ==
    LET k == DeclaredKind(filename)
        s == LeadingSignature(data)
    IN  (pc # "dispatch" /\ s # "none") => ran = <<IF k = "other" THEN s ELSE k>>

\* C3 witness: a file named x with the bytes %PDF was read as text.
C3_Witness ==
    /\ pc = "done"
    /\ filename = <<"x">>
    /\ data = Sig_PDF
    /\ ran = <<"txt">>
    /\ ret = [text |-> Sig_PDF, err |-> Nil]

\* C4: with an extension that names no extractor, the leading bytes %PDF,
\* PK, {\rtf choose the extractor, which runs alone and whose result is
\* returned; when none of them leads the data no extractor runs and the
\* call fails with an empty text and the unsupported-type error, which
\* carries the extension in lower case.
C4_SniffUnrecognized ==
    LET s == LeadingSignature(data)
    IN  (DeclaredKind(filename) = "other" /\ pc # "dispatch") =>
            /\ s # "none" =>
                  /\ ran = <<s>>
                  /\ pc = "done" => ret = ExtractorReturn(s)
            /\ s = "none" =>
                  /\ pc = "done"
                  /\ ran = <<>>
                  /\ ret.text = <<>>
                  /\ ret.err.kind = "errors.New"
                  /\ ret.err.msg = "unsupported file type: "
                  /\ IsLoweredExtOf(ret.err.ext, filename)

\* C4 witness: x.unknown with the bytes %PDF went to the PDF adapter, which
\* returned the output of the subprocess.
C4_Witness ==
    /\ pc = "done"
    /\ filename = <<"x", ".", "u", "n", "k", "n", "o", "w", "n">>
    /\ data = Sig_PDF
    /\ ran = <<"pdf">>
    /\ ret.err = Nil
    /\ ret.text # <<>>

(***************************************************************************)
(* Properties of extractPDF.                                               *)
(***************************************************************************)

\* C1: no state is reachable in which extractPDF is blocked writing to a
\* full stdin pipe while the subprocess is blocked writing to a full stdout
\* pipe that nobody reads.
C1_NoPipeDeadlock ==
    ~ ( /\ pc = "pdf_write"
        /\ written < Len(data)
        /\ Len(stdinPipe) = PipeCap
        /\ toolPc = "wr"
        /\ Len(stdoutPipe) = PipeCap )

\* C10 as stated: spawn failure returns the OS error and no text; a nonzero
\* exit after the input was fully written returns the exit status and no
\* text; an exit with status zero returns exactly the bytes the subprocess
\* wrote to its standard output.
C10_OutcomeFollowsFate ==
    pc = "done" =>
        /\ toolPc = "none" => (osErr # Nil /\ ret = [text |-> <<>>, err |-> osErr])
        /\ (exitStatus > 0 /\ written = Len(data)) =>
                ret = [text |-> <<>>, err |-> ExitError(exitStatus)]
        /\ exitStatus = 0 => ret = [text |-> toolEmitted, err |-> Nil]

\* C10 amended: spawn failure returns the OS error and no text; when the
\* input was fully written and the output was read to its end without
\* error, a nonzero exit returns that exit status and no text, and an exit
\* with status zero returns exactly the bytes the subprocess wrote to its
\* standard output, unchanged.
C10_OutcomeFollowsFateAmended ==
    pc = "done" =>
        /\ toolPc = "none" => (osErr # Nil /\ ret = [text |-> <<>>, err |-> osErr])
        /\ (toolPc # "none" /\ written = Len(data) /\ osErr = Nil) =>
                /\ exitStatus > 0 => ret = [text |-> <<>>, err |-> ExitError(exitStatus)]
                /\ exitStatus = 0 => ret = [text |-> toolEmitted, err |-> Nil]

\* C10 witness: the subprocess wrote a carriage return and a letter, exited
\* with status zero, and the call returned them.
C10_Witness ==
    /\ pc = "done"
    /\ waited
    /\ exitStatus = 0
    /\ written = Len(data)
    /\ Len(data) > PipeCap
    /\ ret = [text |-> <<13, 65>>, err |-> Nil]

\* C23: once the subprocess has been started, extractPDF returns only after
\* it has closed the subprocess's standard input and cmd.Wait() has
\* collected the exited subprocess.
C23_ClosedAndReaped ==
    (pc = "done" /\ toolPc # "none") =>
        /\ stdinClosed
        /\ ToolHasExited
        /\ waited

(***************************************************************************)
(* handleExtractBatch: one HTTP request that carries several files.  A     *)
(* string of the request is a sequence of characters.  The text of a       *)
(* response item is a record: a fixed message, the error whose message     *)
(* follows it, or the extracted text.                                      *)
(***************************************************************************)
MaxFiles == 2     \* most files in one batch request

\* unicode.IsSpaceChar, for the white space a request is built from here
IsSpaceChar(c) == c \in {" ", "\t", "\n", "\r", "\f"}

RECURSIVE TrimLeft(_)
TrimLeft(s) == IF s # <<>> /\ IsSpaceChar(Head(s)) THEN TrimLeft(Tail(s)) ELSE s

RECURSIVE TrimRight(_)
TrimRight(s) ==
    IF s # <<>> /\ IsSpaceChar(s[Len(s)]) THEN TrimRight(SubSeq(s, 1, Len(s) - 1)) ELSE s

\* strings.TrimSpace
TrimSpace(s) == TrimRight(TrimLeft(s))

B64Alphabet ==
    <<"A", "B", "C", "D", "E", "F", "G", "H", "I", "J", "K", "L", "M",
      "N", "O", "P", "Q", "R", "S", "T", "U", "V", "W", "X", "Y", "Z",
      "a", "b", "c", "d", "e", "f", "g", "h", "i", "j", "k", "l", "m",
      "n", "o", "p", "q", "r", "s", "t", "u", "v", "w", "x", "y", "z",
      "0", "1", "2", "3", "4", "5", "6", "7", "8", "9", "+", "/">>

IsB64(c) == \E n \in 1..Len(B64Alphabet) : B64Alphabet[n] = c
B64Index(c) == (CHOOSE n \in 1..Len(B64Alphabet) : B64Alphabet[n] = c) - 1

\* The decoder passes over carriage returns and line feeds wherever they are.
B64Strip(s) == SelectSeq(s, LAMBDA c : c \notin {"\r", "\n"})

\* The '=' characters that close the input: two, one or none.
B64Pad(t) ==
    IF Len(t) >= 2 /\ t[Len(t)] = "=" /\ t[Len(t) - 1] = "=" THEN 2
    ELSE IF Len(t) >= 1 /\ t[Len(t)] = "=" THEN 1
    ELSE 0

\* base64.StdEncoding.DecodeString returns no error: whole quanta of four
\* characters of the alphabet, the last one padded with '=' or '=='.
B64Valid(s) ==
    LET t == B64Strip(s)
    IN  /\ Len(t) % 4 = 0
        /\ \A k \in 1..(Len(t) - B64Pad(t)) : IsB64(t[k])

\* The bytes base64.StdEncoding.DecodeString returns for a valid input.
B64Decode(s) ==
    LET t == B64Strip(s)
        V(k) == IF t[k] = "=" THEN 0 ELSE B64Index(t[k])
        W(q) == V(4 * q - 3) * 262144 + V(4 * q - 2) * 4096 + V(4 * q - 1) * 64 + V(4 * q)
        all == [j \in 1..(3 * (Len(t) \div 4)) |->
                   LET q == ((j - 1) \div 3) + 1
                       r == (j - 1) % 3
                   IN  IF r = 0 THEN W(q) \div 65536
                       ELSE IF r = 1 THEN (W(q) \div 256) % 256
                       ELSE W(q) % 256]
    IN  SubSeq(all, 1, Len(all) - B64Pad(t))

\* base64.CorruptInputError; the byte offset its message ends with is left out.
B64Error ==
    [kind |-> "base64.CorruptInputError", msg |-> "illegal base64 data at input byte",
     code |-> 0, ext |-> <<>>]

\* What extractPDF may return: the fate of the external tool is not decided
\* by the bytes handed to it.
PdfOutcomes ==
    {[text |-> <<>>, err |-> e] : e \in PipeErrors \cup SpawnErrors \cup WriteErrors \cup ReadErrors}
    \cup {PdfResult(s, o) : s \in {0, 1}, o \in {<<>>, <<72, 105>>}}

\* What ExtractText(name, bs) may return.  The files of a batch request here
\* are shorter than the end-of-central-directory record of an archive, so
\* zip.NewReader refuses every one that reaches extractDOCX.
ExtractOutcomes(name, bs) ==
    LET ext == ToLower(Ext(name))
        k == Route(ext, bs)
    IN  IF k = "pdf" THEN PdfOutcomes
        ELSE IF k = "docx" THEN {[text |-> <<>>, err |-> ZipError("zip: not a valid zip file")]}
        ELSE IF k = "rtf" THEN {extractRTF(bs)}
        ELSE IF k = "txt" THEN {extractTXT(bs)}
        ELSE {[text |-> <<>>, err |-> ErrUnsupported(ext)]}

\* item.Success = false; item.Text = m, or m followed by e.Error()
FailItem(name, m, e) ==
    [filename |-> name, success |-> FALSE, text |-> [pre |-> m, err |-> e, val |-> <<>>]]

\* A variant that reports every extraction as a success.
ExtractItem_AlwaysSuccess(name, r) ==
    [filename |-> name, success |-> TRUE, text |-> [pre |-> "", err |-> r.err, val |-> r.text]]

\* The item built from what ExtractText returned.
ExtractItem(name, r) ==
    IF r.err # Nil THEN FailItem(name, "", r.err)
    ELSE [filename |-> name, success |-> TRUE, text |-> [pre |-> "", err |-> Nil, val |-> r.text]]

\* for _, f := range req.Files
CurFile == req.files[Len(results) + 1]
InLoop == pc = "batch_loop" /\ Len(results) < Len(req.files)

\* r.Method != http.MethodPost
BatchMethodNotAllowed ==
    /\ pc = "batch_start"
    /\ req.method # "POST"
    /\ resp' = [code |-> 405, results |-> <<>>]
    /\ pc' = "done"
    /\ UNCHANGED <<req, results, calls, callVars, pdfVars, nonPdfVars>>

\* json.NewDecoder(r.Body).Decode(&req) fails
BatchBadJSON ==
    /\ pc = "batch_start"
    /\ req.method = "POST"
    /\ req.body # "json"
    /\ resp' = [code |-> 400, results |-> <<>>]
    /\ pc' = "done"
    /\ UNCHANGED <<req, results, calls, callVars, pdfVars, nonPdfVars>>

\* len(req.Files) == 0
BatchNoFiles ==
    /\ pc = "batch_start"
    /\ req.method = "POST"
    /\ req.body = "json"
    /\ req.files = <<>>
    /\ resp' = [code |-> 400, results |-> <<>>]
    /\ pc' = "done"
    /\ UNCHANGED <<req, results, calls, callVars, pdfVars, nonPdfVars>>

\* results := make([]batchResponseItem, 0, len(req.Files))
BatchBegin ==
    /\ pc = "batch_start"
    /\ req.method = "POST"
    /\ req.body = "json"
    /\ req.files # <<>>
    /\ pc' = "batch_loop"
    /\ UNCHANGED <<batchVars, callVars, pdfVars, nonPdfVars>>

\* item.Filename == ""
BatchNoFilename ==
    /\ InLoop
    /\ TrimSpace(CurFile.filename) = <<>>
    /\ results' = Append(results, FailItem(<<>>, "filename is required", Nil))
    /\ UNCHANGED <<pc, req, calls, resp, callVars, pdfVars, nonPdfVars>>

\* strings.TrimSpace(f.ContentBase64) == ""
BatchNoContent ==
    /\ InLoop
    /\ TrimSpace(CurFile.filename) # <<>>
    /\ TrimSpace(CurFile.content) = <<>>
    /\ results' = Append(results,
                         FailItem(TrimSpace(CurFile.filename), "content_base64 is required", Nil))
    /\ UNCHANGED <<pc, req, calls, resp, callVars, pdfVars, nonPdfVars>>

\* base64.StdEncoding.DecodeString(f.ContentBase64) fails
BatchBadBase64 ==
    /\ InLoop
    /\ TrimSpace(CurFile.filename) # <<>>
    /\ TrimSpace(CurFile.content) # <<>>
    /\ ~B64Valid(CurFile.content)
    /\ results' = Append(results,
                         FailItem(TrimSpace(CurFile.filename), "invalid base64: ", B64Error))
    /\ UNCHANGED <<pc, req, calls, resp, callVars, pdfVars, nonPdfVars>>

\* text, err := extract.ExtractText(item.Filename, data), and the item
\* that follows from it
BatchExtract ==
    /\ InLoop
    /\ TrimSpace(CurFile.filename) # <<>>
    /\ TrimSpace(CurFile.content) # <<>>
    /\ B64Valid(CurFile.content)
    /\ LET name == TrimSpace(CurFile.filename)
           bs == B64Decode(CurFile.content)
       IN  \E r \in ExtractOutcomes(name, bs) :
              /\ calls' = Append(calls, [k |-> Len(results) + 1, filename |-> name,
                                         data |-> bs, ret |-> r])
              /\ results' = Append(results, ExtractItem(name, r))
    /\ UNCHANGED <<pc, req, resp, callVars, pdfVars, nonPdfVars>>

\* writeJSON(w, http.StatusOK, batchResponse{Results: results})
BatchRespond ==
    /\ pc = "batch_loop"
    /\ Len(results) = Len(req.files)
    /\ resp' = [code |-> 200, results |-> results]
    /\ pc' = "done"
    /\ UNCHANGED <<req, results, calls, callVars, pdfVars, nonPdfVars>>

(***************************************************************************)
(* The specification of handleExtractBatch: one request, served to its     *)
(* response.                                                               *)
(***************************************************************************)
Name_Txt == <<"x", ".", "t", "x", "t">>
B64_Hi == <<"a", "G", "k", "=">>                          \* hi
B64_Pdf == <<"J", "V", "B", "E", "R", "g", "=", "=">>     \* %PDF
B64_Rtf == <<"e", "1", "x", "y", "d", "G", "Y", "x", "I", "E", "F", "9">>

BatchFiles ==
    {[filename |-> Name_Txt, content |-> B64_Hi],
     [filename |-> <<" ">> \o Name_Txt \o <<"\t", " ">>, content |-> B64_Hi \o <<"\r", "\n">>],
     [filename |-> <<>>, content |-> B64_Hi],
     [filename |-> <<" ", "\n">>, content |-> B64_Hi],
     [filename |-> Name_Txt, content |-> <<>>],
     [filename |-> Name_Txt, content |-> <<" ", "\n">>],
     [filename |-> Name_Txt, content |-> <<"a", "G", "k">>],
     [filename |-> Name_Txt, content |-> <<" ">> \o B64_Hi],
     [filename |-> Name_Txt, content |-> <<"a", "G", "=", "k">>],
     [filename |-> Name_Txt, content |-> <<"a", "G", "\n", "k", "=">>],
     [filename |-> <<"x", ".", "b", "i", "n">>, content |-> B64_Hi],
     [filename |-> <<"x", ".", "b", "i", "n">>, content |-> B64_Pdf],
     [filename |-> <<"x", ".", "P", "D", "F">>, content |-> B64_Hi],
     [filename |-> <<"x", ".", "d", "o", "c", "x">>, content |-> B64_Hi],
     [filename |-> <<"x", ".", "r", "t", "f">>, content |-> B64_Rtf]}

RECURSIVE FileLists(_)
FileLists(n) ==
    IF n = 0 THEN {<<>>}
    ELSE FileLists(n - 1) \cup {Append(l, f) : l \in {m \in FileLists(n - 1) : Len(m) = n - 1},
                                                f \in BatchFiles}

BatchRequests ==
    {[method |-> m, body |-> y, files |-> l] :
        m \in {"POST", "GET"}, y \in {"json", "garbage"}, l \in FileLists(MaxFiles)}

InitBATCH ==
    /\ pc = "batch_start"
    /\ req \in BatchRequests
    /\ results = <<>>
    /\ calls = <<>>
    /\ resp = [code |-> 0, results |-> <<>>]
    /\ filename = <<>>
    /\ data = <<>>
    /\ ret = NoRet
    /\ ran = <<>>
    /\ PdfIdle
    /\ TxtIdle /\ RtfIdle /\ DocxIdle

NextBATCH ==
    \/ BatchMethodNotAllowed \/ BatchBadJSON \/ BatchNoFiles \/ BatchBegin
    \/ BatchNoFilename \/ BatchNoContent \/ BatchBadBase64 \/ BatchExtract
    \/ BatchRespond

SpecBATCH == InitBATCH /\ [][NextBATCH]_vars

(***************************************************************************)
(* Properties of handleExtractBatch.                                       *)
(***************************************************************************)
\* t is s without its leading and its trailing white space.
IsTrimOf(t, s) ==
    \E a, z \in 0..Len(s) :
        /\ a + z <= Len(s)
        /\ t = SubSeq(s, a + 1, Len(s) - z)
        /\ \A j \in 1..a : IsSpaceChar(s[j])
        /\ \A j \in (Len(s) - z + 1)..Len(s) : IsSpaceChar(s[j])
        /\ t # <<>> => ~IsSpaceChar(t[1]) /\ ~IsSpaceChar(t[Len(t)])

IsBlankString(s) == \A j \in 1..Len(s) : IsSpaceChar(s[j])

\* What is wrong with a file of the request before any extraction.
FileFault(f) ==
    IF IsBlankString(f.filename) THEN "filename"
    ELSE IF IsBlankString(f.content) THEN "content"
    ELSE IF ~B64Valid(f.content) THEN "base64"
    ELSE "none"

\* The calls of ExtractText made for file k.
CallsFor(k) == {c \in 1..Len(calls) : calls[c].k = k}

\* C20: a request with n >= 1 files is answered with n results in the order
\* of the files, result k carrying the trimmed filename of file k.  A file
\* with no filename, no content or invalid base64 gives an item with
\* success = false and no extraction; every other file is extracted once,
\* from its own name and bytes, whatever became of the files before it; and
\* an item has success = true exactly when its extraction returned no error.
C20_BatchIsolation ==
    /\ Len(results) <= Len(req.files)
    /\ \A k \in 1..Len(results) :
          /\ IsTrimOf(results[k].filename, req.files[k].filename)
          /\ results[k].success <=> \E c \in CallsFor(k) : calls[c].ret.err = Nil
          /\ FileFault(req.files[k]) # "none" => ~results[k].success /\ CallsFor(k) = {}
          /\ FileFault(req.files[k]) = "none" =>
                /\ Cardinality(CallsFor(k)) = 1
                /\ \A c \in CallsFor(k) :
                      /\ calls[c].filename = results[k].filename
                      /\ calls[c].data = B64Decode(req.files[k].content)
                      /\ calls[c].ret \in ExtractOutcomes(calls[c].filename, calls[c].data)
                      /\ results[k].text.err = calls[c].ret.err
                      /\ results[k].success => results[k].text.val = calls[c].ret.text
    /\ \A c \in 1..Len(calls) : calls[c].k \in 1..Len(results)
    /\ \A c, d \in 1..Len(calls) : c < d => calls[c].k < calls[d].k
    /\ resp.code = 200 =>
          /\ Len(req.files) >= 1
          /\ Len(resp.results) = Len(req.files)
          /\ resp.results = results
    /\ (pc = "done" /\ req.method = "POST" /\ req.body = "json" /\ req.files # <<>>) =>
          resp.code = 200

\* Two files answered: the first with invalid base64, the second extracted
\* to "hi" under its trimmed name.
C20_Witness ==
    /\ pc = "done"
    /\ resp.code = 200
    /\ Len(resp.results) = 2
    /\ FileFault(req.files[1]) = "base64"
    /\ ~resp.results[1].success
    /\ req.files[2].filename # resp.results[2].filename
    /\ resp.results[2].filename = Name_Txt
    /\ resp.results[2].success
    /\ resp.results[2].text.val = <<104, 105>>

====
